---------------------------- MODULE Spec2Model ----------------------------
(***************************************************************************)
(* Model of the conversation-memory component (src/src/ai/memory_manager.py)*)
(* MemoryManager keeps every turn in an SQLite table `conversations` and a  *)
(* ChromaDB collection `collection`, and assembles bounded context windows. *)
(* ToolManager (src/src/ai/tool_manager.py) keeps the registry of tools, and *)
(* ChatBot (src/src/core/chatbot.py) runs one message through both.         *)
(* WarpAIIntegration (src/warp_integration.py) and the web layer            *)
(* (src/ui/web/app.py) drive ChatBots on behalf of their callers.           *)
(*                                                                          *)
(* Time is counted in whole days from January 1st (day 1); a timestamp is   *)
(* the value datetime.now() had when the row was written.  Similarities and *)
(* distances are fixed-point numbers in tenths (One = 1.0).                 *)
(***************************************************************************)
EXTENDS Integers, Sequences, FiniteSets, TLC

VARIABLES
    conversations,  \* rows of the SQLite table `conversations`
    collection,     \* records of the ChromaDB collection `conversation_memory`
    now,            \* the wall clock read by datetime.now(), in days
    lastrowids,     \* history: every cursor.lastrowid handed out, in order
    stored,         \* history: the latest store_interaction that inserted a row
    call,           \* the most recent call on the component and its arguments
    fetched,        \* what the stores returned to that call (rows / hits)
    result,         \* what that call returned to its caller
    raised,         \* whether that call raised to its caller
    user_preferences,   \* rows of the SQLite table `user_preferences`
    written,        \* history: the values written for each preference key, in order
    tools,          \* ToolManager.tools: name -> function, description, enabled
    enabled_tools,  \* ToolManager.enabled_tools, a list of names
    conversation,   \* ChatBot.conversation.messages
    frame,          \* the locals of the process_message call in progress
    trace,          \* history: what that process_message call has done so far
    warp,           \* the locals of the execute_with_tools call in progress
    active_bots,    \* the web layer's dict: session id -> ChatBot
    bots,           \* every ChatBot the web layer has constructed, in order
    requests,       \* the web requests: each one's locals and position
    uncommitted     \* the open SQLite write transaction: its connection and rows

memoryVars == <<conversations, collection, now, lastrowids, stored>>
registerVars == <<call, fetched, result, raised>>
preferenceVars == <<user_preferences, written>>
toolVars == <<tools, enabled_tools>>
chatVars == <<conversation, frame, trace>>
warpVars == <<warp>>
webVars == <<active_bots, bots, requests, uncommitted>>

vars == <<memoryVars, registerVars, preferenceVars, toolVars, chatVars, warpVars, webVars>>

----------------------------------------------------------------------------
(* Bounds of the model *)

MaxInserts == 2     \* INSERTs in a run of the store's life cycle (Spec)
MaxTurns == 3       \* turns stored before a context window is assembled (SpecContext)
MaxRecords == 3     \* records indexed before memories are retrieved (SpecRetrieve)
FirstDay == 30      \* the clock starts on January 30th
MaxDay == 32        \* ... and stops on February 1st
MaxTokens == 6      \* largest max_tokens handed to get_conversation_context
MaxLimit == 3       \* largest limit handed to retrieve_memories

(* Inputs *)

None == "<None>"                    \* Python's None / SQL NULL
UserMessages == {"a", "bbb"}
AssistantResponses == {"c"}
StoreSessionIds == {"s1", None}     \* session_id handed to store_interaction
QuerySessionIds == {"s1", "default"}\* session_id handed to the readers
DaysToKeepValues == {0, 1, 30}
Distances == {1, 3, 4}              \* cosine distances the index reports, in tenths
Thresholds == {0, 7}                \* similarity_threshold, in tenths
Queries == {"q"}

----------------------------------------------------------------------------
(* Helpers *)

Max(S) == CHOOSE x \in S : \A y \in S : y <= x

Min2(a, b) == IF a <= b THEN a ELSE b

RECURSIVE Reversed(_)
Reversed(s) == IF s = <<>> THEN <<>> ELSE Reversed(Tail(s)) \o <<Head(s)>>

\* the sequences of k distinct elements of the finite set S
RECURSIVE Arrangements(_, _)
Arrangements(S, k) ==
    IF k = 0
    THEN {<<>>}
    ELSE UNION {{<<x>> \o p : p \in Arrangements(S \ {x}, k - 1)} : x \in S}

\* all orderings of the finite set S
Orderings(S) == Arrangements(S, Cardinality(S))

----------------------------------------------------------------------------
(* The calendar behind datetime.replace(day=...) *)

MonthDays == <<31, 28, 31>>

RECURSIVE MonthStart(_)
MonthStart(m) == IF m = 1 THEN 0 ELSE MonthStart(m - 1) + MonthDays[m - 1]

MonthOf(t) ==
    CHOOSE m \in 1..Len(MonthDays) : MonthStart(m) < t /\ t <= MonthStart(m) + MonthDays[m]

DayOfMonth(t) == t - MonthStart(MonthOf(t))

\* datetime.replace(day=d) raises ValueError unless d is a day of t's month
ReplaceDayValid(t, d) == 1 <= d /\ d <= MonthDays[MonthOf(t)]

ReplaceDay(t, d) == MonthStart(MonthOf(t)) + d

\* timestamp.isoformat(), reduced to month and day
IsoFormat(t) == ToString(MonthOf(t)) \o "-" \o ToString(DayOfMonth(t))

----------------------------------------------------------------------------
(* The structured store *)

\* rowid of an INTEGER PRIMARY KEY column declared without AUTOINCREMENT:
\* one more than the largest rowid currently in the table
NextRowId(table) == IF table = {} THEN 1 ELSE Max({r.id : r \in table}) + 1

\* json.dumps(metadata or {})
MetadataJson(metadata) == IF metadata = None THEN "{}" ELSE metadata

\* mutant: the two text columns receive each other's value
NewRowSwapped(id, user_message, assistant_response, timestamp, session_id, metadata) ==
    [id |-> id,
     user_message |-> assistant_response,
     assistant_response |-> user_message,
     timestamp |-> timestamp,
     session_id |-> session_id,
     metadata |-> MetadataJson(metadata)]

NewRow(id, user_message, assistant_response, timestamp, session_id, metadata) ==
    [id |-> id,
     user_message |-> user_message,
     assistant_response |-> assistant_response,
     timestamp |-> timestamp,
     session_id |-> session_id,
     metadata |-> MetadataJson(metadata)]

\* SQL `column = ?`: never true when either side is NULL
SqlEquals(column, value) == column # None /\ value # None /\ column = value

\* SELECT ... WHERE session_id = ?
RowsOfSession(table, session_id) == {r \in table : SqlEquals(r.session_id, session_id)}

\* ORDER BY timestamp DESC: rows of equal timestamp come in an unspecified order
OrderedByTimestampDesc(rows) ==
    {f \in Orderings(rows) : \A i, j \in DOMAIN f : i < j => f[i].timestamp >= f[j].timestamp}

----------------------------------------------------------------------------
(* The semantic index *)

RecordId(interaction_id) == "interaction_" \o ToString(interaction_id)

CombinedText(user_message, assistant_response) ==
    "User: " \o user_message \o "\nAssistant: " \o assistant_response

SessionOrDefault(session_id) == IF session_id = None THEN "default" ELSE session_id

NewRecord(interaction_id, user_message, assistant_response, timestamp, session_id) ==
    [id |-> RecordId(interaction_id),
     document |-> CombinedText(user_message, assistant_response),
     metadata |-> [id |-> interaction_id,
                   timestamp |-> IsoFormat(timestamp),
                   session_id |-> SessionOrDefault(session_id)]]

\* collection.add: a record whose id is already in the collection is ignored
CollectionAdd(coll, record) ==
    IF \E r \in coll : r.id = record.id THEN coll ELSE coll \cup {record}

----------------------------------------------------------------------------
(* store_interaction: INSERT and commit, then collection.add.  Either write *)
(* can fail; a failure raises to the caller.                                *)

StoreOutcomes == {"ok", "insert_fails", "add_fails"}

NoStore == [interaction_id |-> 0, returned |-> FALSE]

StoreInteraction(user_message, assistant_response, session_id, outcome) ==
    /\ LET interaction_id == NextRowId(conversations)
           timestamp == now
       IN  /\ call' = [op |-> "store_interaction",
                       user_message |-> user_message,
                       assistant_response |-> assistant_response,
                       session_id |-> session_id,
                       interaction_id |-> IF outcome = "insert_fails" THEN 0 ELSE interaction_id]
           /\ IF outcome = "insert_fails"
              THEN UNCHANGED <<conversations, collection, lastrowids, stored>>
              ELSE /\ conversations' = conversations \cup
                          {NewRow(interaction_id, user_message, assistant_response,
                                  timestamp, session_id, None)}
                   /\ lastrowids' = Append(lastrowids, interaction_id)
                   /\ stored' = [interaction_id |-> interaction_id,
                                 user_message |-> user_message,
                                 assistant_response |-> assistant_response,
                                 session_id |-> session_id,
                                 returned |-> (outcome = "ok")]
                   /\ collection' =
                          IF outcome = "add_fails"
                          THEN collection
                          ELSE CollectionAdd(collection,
                                   NewRecord(interaction_id, user_message,
                                             assistant_response, timestamp, session_id))
           /\ raised' = (outcome # "ok")
           /\ fetched' = <<>>
           /\ result' = <<>>
           /\ UNCHANGED now

\* the wall clock advances between calls
Tick ==
    /\ now < MaxDay
    /\ now' = now + 1
    /\ call' = [op |-> "tick"]
    /\ fetched' = <<>>
    /\ result' = <<>>
    /\ raised' = FALSE
    /\ UNCHANGED <<conversations, collection, lastrowids, stored>>

----------------------------------------------------------------------------
(* get_conversation_context *)

Message(role, content) == [role |-> role, content |-> content]

\* mutant: the budget is tested before the turn is counted
OverBudgetLate(total_length, msg_length, max_tokens) == total_length > max_tokens

\* the `if total_length + msg_length > max_tokens: break` test
OverBudget(total_length, msg_length, max_tokens) == total_length + msg_length > max_tokens

\* context.extend([...]) for one row
TurnMessages(row) ==
    <<Message("user", row.user_message), Message("assistant", row.assistant_response)>>

\* mutant: `continue` for `break`, an overflowing turn is skipped
RECURSIVE ContextLoopSkipping(_, _, _, _, _)
ContextLoopSkipping(rows, i, context, total_length, max_tokens) ==
    IF i > Len(rows)
    THEN context
    ELSE LET msg_length == Len(rows[i].user_message) + Len(rows[i].assistant_response)
         IN  IF OverBudget(total_length, msg_length, max_tokens)
             THEN ContextLoopSkipping(rows, i + 1, context, total_length, max_tokens)
             ELSE ContextLoopSkipping(rows, i + 1, context \o TurnMessages(rows[i]),
                                      total_length + msg_length, max_tokens)

\* the for loop over the fetched rows, from row i on
RECURSIVE ContextLoop(_, _, _, _, _)
ContextLoop(rows, i, context, total_length, max_tokens) ==
    IF i > Len(rows)
    THEN context
    ELSE LET msg_length == Len(rows[i].user_message) + Len(rows[i].assistant_response)
         IN  IF OverBudget(total_length, msg_length, max_tokens)
             THEN context
             ELSE ContextLoop(rows, i + 1, context \o TurnMessages(rows[i]),
                              total_length + msg_length, max_tokens)

ConversationContext(rows, max_tokens) == Reversed(ContextLoop(rows, 1, <<>>, 0, max_tokens))

\* mutant: the rows that were read are deleted
GetConversationContextConsuming(session_id, max_tokens) ==
    \E rows \in OrderedByTimestampDesc(RowsOfSession(conversations, session_id)) :
        /\ call' = [op |-> "get_conversation_context",
                    session_id |-> session_id,
                    max_tokens |-> max_tokens]
        /\ fetched' = rows
        /\ result' = ConversationContext(rows, max_tokens)
        /\ raised' = FALSE
        /\ conversations' = conversations \ RowsOfSession(conversations, session_id)
        /\ UNCHANGED <<collection, now, lastrowids, stored>>

GetConversationContext(session_id, max_tokens) ==
    \E rows \in OrderedByTimestampDesc(RowsOfSession(conversations, session_id)) :
        /\ call' = [op |-> "get_conversation_context",
                    session_id |-> session_id,
                    max_tokens |-> max_tokens]
        /\ fetched' = rows
        /\ result' = ConversationContext(rows, max_tokens)
        /\ raised' = FALSE
        /\ UNCHANGED <<conversations, collection, now, lastrowids, stored>>

----------------------------------------------------------------------------
(* cleanup_old_memories *)

CleanupOldMemories(days_to_keep) ==
    LET day == DayOfMonth(now) - days_to_keep
    IN  /\ call' = [op |-> "cleanup_old_memories", days_to_keep |-> days_to_keep]
        /\ fetched' = <<>>
        /\ result' = <<>>
        /\ IF ReplaceDayValid(now, day)
           THEN LET cutoff_date == ReplaceDay(now, day)
                IN  /\ conversations' = {r \in conversations : ~(r.timestamp < cutoff_date)}
                    /\ raised' = FALSE
           ELSE /\ raised' = TRUE
                /\ UNCHANGED conversations
        /\ UNCHANGED <<collection, now, lastrowids, stored>>

----------------------------------------------------------------------------
(* retrieve_memories *)

One == 10               \* the 1 of `similarity = 1 - distance`, in tenths

\* collection.query(query_texts=[query], n_results=limit) rejects n_results <= 0
QueryRejects(limit) == limit <= 0

\* the distances of n hits, nearest first
AscendingDistances(n) ==
    {d \in [1..n -> Distances] : \A i, j \in 1..n : i < j => d[i] <= d[j]}

\* the answers the index can give: min(limit, count) records, nearest first.
\* Which records are nearest to the query, and how near, is the embedding's
\* business: any records at any ascending distances can come back.
QueryHits(coll, limit) ==
    LET n == Min2(limit, Cardinality(coll))
    IN  {[i \in 1..n |-> [document |-> f[i].document,
                          metadata |-> f[i].metadata,
                          distance |-> d[i]]] :
            f \in Arrangements(coll, n), d \in AscendingDistances(n)}

\* mutant: the distance itself is taken for the similarity
SimilarityIsDistance(distance) == distance

Similarity(distance) == One - distance

\* mutant: the comparison is turned around
MeetsThresholdReversed(similarity, similarity_threshold) == similarity <= similarity_threshold

\* the `if similarity >= similarity_threshold` test
MeetsThreshold(similarity, similarity_threshold) == similarity >= similarity_threshold

Memory(hit) ==
    [content |-> hit.document,
     similarity |-> Similarity(hit.distance),
     timestamp |-> hit.metadata.timestamp,
     id |-> hit.metadata.id]

\* the for loop over results['documents'][0], from hit i on
RECURSIVE MemoriesLoop(_, _, _, _)
MemoriesLoop(hits, i, memories, similarity_threshold) ==
    IF i > Len(hits)
    THEN memories
    ELSE MemoriesLoop(hits, i + 1,
                      IF MeetsThreshold(Similarity(hits[i].distance), similarity_threshold)
                      THEN Append(memories, Memory(hits[i]))
                      ELSE memories,
                      similarity_threshold)

QueryOutcomes == {"ok", "query_fails"}

\* an exception of the query is caught and printed, and [] is returned
RetrieveMemories(query, limit, similarity_threshold, outcome) ==
    /\ call' = [op |-> "retrieve_memories",
                query |-> query,
                limit |-> limit,
                similarity_threshold |-> similarity_threshold]
    /\ raised' = FALSE
    /\ IF outcome = "query_fails" \/ QueryRejects(limit)
       THEN /\ fetched' = <<>>
            /\ result' = <<>>
       ELSE \E hits \in QueryHits(collection, limit) :
                /\ fetched' = hits
                /\ result' = MemoriesLoop(hits, 1, <<>>, similarity_threshold)
    /\ UNCHANGED <<conversations, collection, now, lastrowids, stored>>

----------------------------------------------------------------------------
(* The preference store: store_user_preference, get_user_preference *)

PreferenceKeys == {"theme", "lang"}
PreferenceValues == {"v1", "v2"}

\* no value has been written for any key
NoPreferences == [k \in PreferenceKeys |-> <<>>]

\* mutant: plain INSERT semantics, the row of the same key is kept
InsertOrKeep(table, key, value, updated_at) ==
    table \cup {[id |-> NextRowId(table), key |-> key, value |-> value,
                 updated_at |-> updated_at]}

\* INSERT OR REPLACE INTO user_preferences: `key` is UNIQUE, so the row that
\* holds the key is deleted; the new rowid is drawn before the delete
InsertOrReplace(table, key, value, updated_at) ==
    {r \in table : ~SqlEquals(r.key, key)} \cup
        {[id |-> NextRowId(table), key |-> key, value |-> value,
          updated_at |-> updated_at]}

StoreUserPreference(key, value) ==
    /\ user_preferences' = InsertOrReplace(user_preferences, key, value, now)
    /\ written' = [written EXCEPT ![key] = Append(@, value)]
    /\ call' = [op |-> "store_user_preference", key |-> key, value |-> value]
    /\ fetched' = <<>>
    /\ result' = None
    /\ raised' = FALSE

\* SELECT value FROM user_preferences WHERE key = ?, then fetchone()
SelectValue(table, key) == {r \in table : SqlEquals(r.key, key)}

GetUserPreference(key) ==
    /\ IF SelectValue(user_preferences, key) = {}
       THEN /\ fetched' = <<>>
            /\ result' = None
       ELSE \E row \in SelectValue(user_preferences, key) :
                /\ fetched' = <<row>>
                /\ result' = row.value
    /\ call' = [op |-> "get_user_preference", key |-> key]
    /\ raised' = FALSE
    /\ UNCHANGED <<user_preferences, written>>

----------------------------------------------------------------------------
(* The tool registry: ToolManager *)

Range(list) == {list[i] : i \in DOMAIN list}

\* the built-in tools, in the order _register_builtin_tools registers them
BuiltinTools ==
    <<[name |-> "web_search", function |-> "_web_search",
       description |-> "Search the web for current information"],
      [name |-> "calculator", function |-> "_calculator",
       description |-> "Perform mathematical calculations"],
      [name |-> "file_operations", function |-> "_file_operations",
       description |-> "Read, write, and manage files"],
      [name |-> "code_executor", function |-> "_code_executor",
       description |-> "Execute Python code in a safe environment"],
      [name |-> "weather", function |-> "_get_weather",
       description |-> "Get current weather information"],
      [name |-> "datetime", function |-> "_get_datetime",
       description |-> "Get current date and time information"]>>

\* config.get('enabled_tools', [...]): the default allow-list
DefaultEnabledTools == <<"web_search", "calculator", "file_operations">>

\* the allow-lists a configuration can carry
AllowLists ==
    {DefaultEnabledTools,
     <<"calculator", "web_search">>,
     <<"calculator", "calculator">>,
     <<"weather", "nonexistent_tool">>,
     <<>>}

\* a tool registered by the embedding application; its function raises
CustomTool ==
    [name |-> "custom", function |-> "raising_function", description |-> "A custom tool"]

\* mutant: every tool is registered enabled
RegisteredEnabled(registry, allow_list, name, function, description) ==
    (name :> [function |-> function, description |-> description, enabled |-> TRUE])
        @@ registry

\* register_tool: self.tools[name] = {...}
Registered(registry, allow_list, name, function, description) ==
    (name :> [function |-> function,
              description |-> description,
              enabled |-> (name \in Range(allow_list))]) @@ registry

RECURSIVE RegisterAll(_, _, _, _)
RegisterAll(registry, allow_list, entries, i) ==
    IF i > Len(entries)
    THEN registry
    ELSE RegisterAll(Registered(registry, allow_list, entries[i].name,
                                entries[i].function, entries[i].description),
                     allow_list, entries, i + 1)

\* _register_builtin_tools on the empty registry
RegisterBuiltinTools(allow_list) == RegisterAll(<<>>, allow_list, BuiltinTools, 1)

RegisterTool(name, function, description) ==
    /\ tools' = Registered(tools, enabled_tools, name, function, description)
    /\ call' = [op |-> "register_tool", name |-> name]
    /\ fetched' = <<>>
    /\ result' = None
    /\ raised' = FALSE
    /\ UNCHANGED enabled_tools

\* list.remove(x): the first occurrence goes
RECURSIVE ListRemove(_, _)
ListRemove(list, x) ==
    IF list = <<>> THEN <<>>
    ELSE IF Head(list) = x THEN Tail(list)
    ELSE <<Head(list)>> \o ListRemove(Tail(list), x)

\* the body of enable_tool / disable_tool for a registered tool
WithEnabled(registry, names, tool_name, flag) ==
    [registry |-> [registry EXCEPT ![tool_name].enabled = flag],
     names |-> IF flag
               THEN IF tool_name \in Range(names) THEN names ELSE Append(names, tool_name)
               ELSE IF tool_name \in Range(names) THEN ListRemove(names, tool_name) ELSE names]

SetEnabled(op, tool_name, flag) ==
    /\ IF tool_name \in DOMAIN tools
       THEN /\ tools' = WithEnabled(tools, enabled_tools, tool_name, flag).registry
            /\ enabled_tools' = WithEnabled(tools, enabled_tools, tool_name, flag).names
       ELSE UNCHANGED <<tools, enabled_tools>>
    /\ call' = [op |-> op, tool_name |-> tool_name]
    /\ fetched' = <<>>
    /\ result' = None
    /\ raised' = FALSE

EnableTool(tool_name) == SetEnabled("enable_tool", tool_name, TRUE)

DisableTool(tool_name) == SetEnabled("disable_tool", tool_name, FALSE)

\* the names of the registry in dict order: built-in tools first
RegistryOrder(registry) ==
    SelectSeq([i \in 1..Len(BuiltinTools) |-> BuiltinTools[i].name] \o <<CustomTool.name>>,
              LAMBDA n : n \in DOMAIN registry)

\* get_available_tools
AvailableTools(registry) ==
    LET names == SelectSeq(RegistryOrder(registry), LAMBDA n : registry[n].enabled)
    IN  [i \in 1..Len(names) |-> [name |-> names[i], description |-> registry[names[i]].description]]

GetAvailableTools ==
    /\ call' = [op |-> "get_available_tools"]
    /\ fetched' = <<>>
    /\ result' = AvailableTools(tools)
    /\ raised' = FALSE
    /\ UNCHANGED <<tools, enabled_tools>>

----------------------------------------------------------------------------
(* analyze_tool_need *)

\* the characters of the texts of the model
Characters(text) ==
        CASE text = "a" -> <<"a">> []
             text = "bbb" -> <<"b", "b", "b">> []
             text = "What is 15 + 27?" -> <<"W", "h", "a", "t", " ", "i", "s", " ", "1", "5", " ", "+", " ", "2", "7", "?">> []
             text = "Search for latest AI news" -> <<"S", "e", "a", "r", "c", "h", " ", "f", "o", "r", " ", "l", "a", "t", "e", "s", "t", " ", "A", "I", " ", "n", "e", "w", "s">> []
             text = "Hello, how are you?" -> <<"H", "e", "l", "l", "o", ",", " ", "h", "o", "w", " ", "a", "r", "e", " ", "y", "o", "u", "?">> []
             text = "RAIN" -> <<"R", "A", "I", "N">> []
             text = "2 + 3" -> <<"2", " ", "+", " ", "3">> []
             text = "1 / 0" -> <<"1", " ", "/", " ", "0">> []
             text = "import os" -> <<"i", "m", "p", "o", "r", "t", " ", "o", "s">> []
             text = "print(1)" -> <<"p", "r", "i", "n", "t", "(", "1", ")">> []
             text = "import sys" -> <<"i", "m", "p", "o", "r", "t", " ", "s", "y", "s">> []
             text = "exec" -> <<"e", "x", "e", "c">> []
             text = "eval" -> <<"e", "v", "a", "l">> []
             text = "__import__" -> <<"_", "_", "i", "m", "p", "o", "r", "t", "_", "_">> []
             text = "python" -> <<"p", "y", "t", "h", "o", "n">> []
             text = "ruby" -> <<"r", "u", "b", "y">> []
             text = "c" -> <<"c">> []
             text = "2 * (3 + 4)" -> <<"2", " ", "*", " ", "(", "3", " ", "+", " ", "4", ")">> []
             text = "__import__('os').system('id')" -> <<"_", "_", "i", "m", "p", "o", "r", "t", "_", "_", "(", "'", "o", "s", "'", ")", ".", "s", "y", "s", "t", "e", "m", "(", "'", "i", "d", "'", ")">> []
             text = "xxxxxxxxxxxxxxxxxxxxxxxxxxxxxxxxxxxxxxxxxxxxxxxxxxxxxxxxxxxxxxxxxxxxxxxxxxxxxxxxxxxxxxxxxxxxxxxxxxxxx" -> <<"x", "x", "x", "x", "x", "x", "x", "x", "x", "x", "x", "x", "x", "x", "x", "x", "x", "x", "x", "x", "x", "x", "x", "x", "x", "x", "x", "x", "x", "x", "x", "x", "x", "x", "x", "x", "x", "x", "x", "x", "x", "x", "x", "x", "x", "x", "x", "x", "x", "x", "x", "x", "x", "x", "x", "x", "x", "x", "x", "x", "x", "x", "x", "x", "x", "x", "x", "x", "x", "x", "x", "x", "x", "x", "x", "x", "x", "x", "x", "x", "x", "x", "x", "x", "x", "x", "x", "x", "x", "x", "x", "x", "x", "x", "x", "x", "x", "x", "x", "x", "x">>

\* str.lower() on one character
LowerChar(c) ==
    CASE c = "A" -> "a" [] c = "B" -> "b" [] c = "C" -> "c" [] c = "D" -> "d" [] c = "E" -> "e" []
         c = "F" -> "f" [] c = "G" -> "g" [] c = "H" -> "h" [] c = "I" -> "i" [] c = "J" -> "j" []
         c = "K" -> "k" [] c = "L" -> "l" [] c = "M" -> "m" [] c = "N" -> "n" [] c = "O" -> "o" []
         c = "P" -> "p" [] c = "Q" -> "q" [] c = "R" -> "r" [] c = "S" -> "s" [] c = "T" -> "t" []
         c = "U" -> "u" [] c = "V" -> "v" [] c = "W" -> "w" [] c = "X" -> "x" [] c = "Y" -> "y" []
         c = "Z" -> "z"
      [] OTHER -> c

Lower(text) == [i \in 1..Len(text) |-> LowerChar(text[i])]

\* re.search(pattern, text) for a pattern without metacharacters
Search(pattern, text) ==
    \E k \in 0..(Len(text) - Len(pattern)) :
        \A i \in 1..Len(pattern) : text[k + i] = pattern[i]

\* tool_patterns, in dict order; r'\+' and r'\*' match the characters + and *
ToolPatterns ==
    <<
        [tool |-> "web_search",
         patterns |-> <<
          <<"s", "e", "a", "r", "c", "h">>, <<"l", "o", "o", "k", " ", "u", "p">>,
          <<"f", "i", "n", "d", " ", "i", "n", "f", "o", "r", "m", "a", "t", "i", "o", "n">>,
          <<"c", "u", "r", "r", "e", "n", "t">>, <<"l", "a", "t", "e", "s", "t">>,
          <<"n", "e", "w", "s">>, <<"w", "h", "a", "t", " ", "i", "s">>,
          <<"w", "h", "o", " ", "i", "s">>, <<"w", "h", "e", "n", " ", "d", "i", "d">>,
          <<"r", "e", "c", "e", "n", "t">>>>],
        [tool |-> "calculator",
         patterns |-> <<
          <<"c", "a", "l", "c", "u", "l", "a", "t", "e">>,
          <<"c", "o", "m", "p", "u", "t", "e">>, <<"m", "a", "t", "h">>, <<"s", "u", "m">>,
          <<"m", "u", "l", "t", "i", "p", "l", "y">>, <<"d", "i", "v", "i", "d", "e">>,
          <<"p", "e", "r", "c", "e", "n", "t", "a", "g", "e">>,
          <<"e", "q", "u", "a", "t", "i", "o", "n">>, <<"+">>, <<"-">>, <<"*">>, <<"/">>>>],
        [tool |-> "file_operations",
         patterns |-> <<
          <<"r", "e", "a", "d", " ", "f", "i", "l", "e">>, <<"s", "a", "v", "e">>,
          <<"w", "r", "i", "t", "e", " ", "f", "i", "l", "e">>,
          <<"c", "r", "e", "a", "t", "e", " ", "f", "i", "l", "e">>,
          <<"f", "i", "l", "e", " ", "c", "o", "n", "t", "e", "n", "t">>>>],
        [tool |-> "code_executor",
         patterns |-> <<
          <<"r", "u", "n", " ", "c", "o", "d", "e">>, <<"e", "x", "e", "c", "u", "t", "e">>,
          <<"p", "y", "t", "h", "o", "n">>, <<"s", "c", "r", "i", "p", "t">>,
          <<"p", "r", "o", "g", "r", "a", "m">>>>],
        [tool |-> "weather",
         patterns |-> <<
          <<"w", "e", "a", "t", "h", "e", "r">>,
          <<"t", "e", "m", "p", "e", "r", "a", "t", "u", "r", "e">>,
          <<"f", "o", "r", "e", "c", "a", "s", "t">>, <<"r", "a", "i", "n">>,
          <<"s", "u", "n", "n", "y">>, <<"c", "l", "i", "m", "a", "t", "e">>>>]
    >>

\* the inner loop: some pattern of the tool is found in message_lower
Matches(patterns, user_message) ==
    \E i \in DOMAIN patterns : Search(patterns[i], Lower(Characters(user_message)))

\* the `if tool in self.enabled_tools` test
Eligible(tool, names) == tool \in Range(names)

NeededTools(names, user_message) ==
    LET hits == SelectSeq(ToolPatterns,
                          LAMBDA t : Eligible(t.tool, names) /\ Matches(t.patterns, user_message))
    IN  [i \in 1..Len(hits) |-> hits[i].tool]

AnalyzeToolNeed(user_message) ==
    /\ call' = [op |-> "analyze_tool_need", user_message |-> user_message]
    /\ fetched' = <<>>
    /\ result' = NeededTools(enabled_tools, user_message)
    /\ raised' = FALSE
    /\ UNCHANGED <<tools, enabled_tools>>

----------------------------------------------------------------------------
(* The tool functions *)

\* the parameters of each tool function after `self`: required, then defaulted
Signature(function) ==
    CASE function = "_web_search" -> [required |-> <<"query">>, defaulted |-> {"num_results"}]
      [] function = "_calculator" -> [required |-> <<"expression">>, defaulted |-> {}]
      [] function = "_file_operations" ->
            [required |-> <<"operation", "filepath">>, defaulted |-> {"content"}]
      [] function = "_code_executor" -> [required |-> <<"code">>, defaulted |-> {"language"}]
      [] function = "_get_weather" -> [required |-> <<"location">>, defaulted |-> {}]
      [] function = "_get_datetime" -> [required |-> <<>>, defaulted |-> {"timezone"}]
      [] function = CustomTool.function -> [required |-> <<>>, defaulted |-> {}]

Unexpected(function, kwargs) ==
    DOMAIN kwargs \ (Range(Signature(function).required) \cup Signature(function).defaulted)

Missing(function, kwargs) ==
    SelectSeq(Signature(function).required, LAMBDA p : p \notin DOMAIN kwargs)

\* str(e) of the TypeError Python raises when **kwargs does not fit the signature
TypeErrorMessage(function, kwargs) ==
    IF Unexpected(function, kwargs) # {}
    THEN "ToolManager." \o function \o "() got an unexpected keyword argument '"
            \o (CHOOSE k \in Unexpected(function, kwargs) : TRUE) \o "'"
    ELSE IF Len(Missing(function, kwargs)) = 1
    THEN "ToolManager." \o function \o "() missing 1 required positional argument: '"
            \o Missing(function, kwargs)[1] \o "'"
    ELSE "ToolManager." \o function \o "() missing 2 required positional arguments: '"
            \o Missing(function, kwargs)[1] \o "' and '" \o Missing(function, kwargs)[2] \o "'"

Accepts(function, kwargs) ==
    Unexpected(function, kwargs) = {} /\ Missing(function, kwargs) = <<>>

\* kwargs.get(name, default)
Argument(kwargs, name, default) == IF name \in DOMAIN kwargs THEN kwargs[name] ELSE default

Returns(value) == [raises |-> FALSE, value |-> value]
Raises(message) == [raises |-> TRUE, value |-> message]

\* mutant: letters, quotes and the underscore are kept as well
EveryCharacter ==
    {"0", "1", "2", "3", "4", "5", "6", "7", "8", "9", "+", "-", "*", "/", ".", "(", ")", " ",
     "_", "'", "a", "b", "c", "d", "e", "f", "g", "h", "i", "j", "k", "l", "m", "n", "o", "p",
     "q", "r", "s", "t", "u", "v", "w", "x", "y", "z"}

\* the characters re.sub(r'[^0-9+\-*/.() ]', '', expression) keeps
CalculatorCharacters ==
    {"0", "1", "2", "3", "4", "5", "6", "7", "8", "9", "+", "-", "*", "/", ".", "(", ")", " "}

SafeExpr(expression) ==
    SelectSeq(Characters(expression), LAMBDA c : c \in CalculatorCharacters)

\* eval(safe_expr) on the expressions of the model
Eval(safe_expr) ==
    CASE safe_expr = <<"2", " ", "+", " ", "3">> -> Returns("5")
      [] safe_expr = <<"1", " ", "/", " ", "0">> -> Raises("division by zero")
      [] safe_expr = <<"(", "1", ")">> -> Returns("1")
      [] safe_expr = <<"2", " ", "*", " ", "(", "3", " ", "+", " ", "4", ")">> -> Returns("14")
      [] safe_expr = <<"(", ")", ".", "(", ")">> -> Raises("invalid syntax (<string>, line 1)")
      [] OTHER -> Raises("invalid syntax (<string>, line 0)")

Calculator(expression) ==
    IF Eval(SafeExpr(expression)).raises
    THEN Returns("Calculation error: " \o Eval(SafeExpr(expression)).value)
    ELSE Returns("Calculation: " \o expression \o " = " \o Eval(SafeExpr(expression)).value)

WebSearch(query) ==
    Returns("Web search results for '" \o query
                \o "':\n1. Mock result 1\n2. Mock result 2\n3. Mock result 3")

\* the outcomes of open() and of the read or write that follows
IoOutcomes == {"ok", "io_fails"}

\* what f.read() returns; shorter than the 1000 characters that are shown
FileContent == "data"

FileOperations(operation, filepath, content, io) ==
    IF operation \notin {"read", "write", "append"}
    THEN Returns("Unsupported file operation: " \o operation)
    ELSE IF io = "io_fails"
    THEN Returns("File operation error: [Errno 13] Permission denied: '" \o filepath \o "'")
    ELSE IF operation = "read" THEN Returns("File content:\n" \o FileContent)
    ELSE IF operation = "write" THEN Returns("Successfully wrote to " \o filepath)
    ELSE Returns("Successfully appended to " \o filepath)

unsafe_patterns == <<"import os", "import sys", "exec", "eval", "__import__">>

\* the first unsafe pattern that occurs in the code, None when there is none
RECURSIVE FirstUnsafe(_, _)
FirstUnsafe(code, i) ==
    IF i > Len(unsafe_patterns) THEN None
    ELSE IF Search(Characters(unsafe_patterns[i]), Characters(code)) THEN unsafe_patterns[i]
    ELSE FirstUnsafe(code, i + 1)

CodeExecutor(code, language) ==
    IF Lower(Characters(language)) # Characters("python")
    THEN Returns("Only Python code execution is currently supported.")
    ELSE IF FirstUnsafe(code, 1) # None
    THEN Returns("Unsafe code detected: " \o FirstUnsafe(code, 1) \o " not allowed")
    ELSE Returns("Code executed successfully:\n" \o code \o "\n\nOutput: [Mock execution result]")

GetWeather(location) ==
    Returns("Weather in " \o location \o ": 22Â°C, partly cloudy, 60% humidity")

GetDatetime(timezone, current_time) ==
    Returns("Current date and time: " \o IsoFormat(current_time) \o " " \o timezone)

\* await tool_func(**kwargs)
ToolFunc(function, kwargs, io, current_time) ==
    IF ~Accepts(function, kwargs) THEN Raises(TypeErrorMessage(function, kwargs))
    ELSE CASE function = "_web_search" -> WebSearch(kwargs.query)
           [] function = "_calculator" -> Calculator(kwargs.expression)
           [] function = "_file_operations" ->
                 FileOperations(kwargs.operation, kwargs.filepath,
                                Argument(kwargs, "content", ""), io)
           [] function = "_code_executor" ->
                 CodeExecutor(kwargs.code, Argument(kwargs, "language", "python"))
           [] function = "_get_weather" -> GetWeather(kwargs.location)
           [] function = "_get_datetime" ->
                 GetDatetime(Argument(kwargs, "timezone", "UTC"), current_time)
           [] function = CustomTool.function -> Raises("boom")

----------------------------------------------------------------------------
(* execute_tool and process_tool_calls *)

\* str(x) inside an f-string
Str(x) == IF x = None THEN "None" ELSE x

\* execute_tool(self, tool_name, **kwargs): a keyword that names one of its
\* own parameters cannot be bound, and the call raises TypeError before the body
Binds(kwargs) == DOMAIN kwargs \cap {"self", "tool_name"} = {}

Outcome(is_raised, value, invoked) ==
    [raised |-> is_raised, value |-> value, invoked |-> invoked]

\* mutant: the enabled flag is not checked
ExecuteToolBodyUnchecked(registry, tool_name, kwargs, io, current_time) ==
    IF tool_name \notin DOMAIN registry
    THEN Outcome(FALSE, [error |-> "Tool '" \o Str(tool_name) \o "' not found"], <<>>)
    ELSE LET r == ToolFunc(registry[tool_name].function, kwargs, io, current_time)
         IN  Outcome(FALSE,
                     IF r.raises
                     THEN [error |-> "Tool execution failed: " \o r.value]
                     ELSE [success |-> TRUE, result |-> r.value],
                     <<[function |-> registry[tool_name].function, kwargs |-> kwargs]>>)

\* the body of execute_tool
ExecuteToolBody(registry, tool_name, kwargs, io, current_time) ==
    IF tool_name \notin DOMAIN registry
    THEN Outcome(FALSE, [error |-> "Tool '" \o Str(tool_name) \o "' not found"], <<>>)
    ELSE IF ~registry[tool_name].enabled
    THEN Outcome(FALSE, [error |-> "Tool '" \o Str(tool_name) \o "' is disabled"], <<>>)
    ELSE LET r == ToolFunc(registry[tool_name].function, kwargs, io, current_time)
         IN  Outcome(FALSE,
                     IF r.raises
                     THEN [error |-> "Tool execution failed: " \o r.value]
                     ELSE [success |-> TRUE, result |-> r.value],
                     <<[function |-> registry[tool_name].function, kwargs |-> kwargs]>>)

\* the call execute_tool(tool_name, **kwargs), binding included
ExecuteToolCall(registry, tool_name, kwargs, io, current_time) ==
    IF Binds(kwargs)
    THEN ExecuteToolBody(registry, tool_name, kwargs, io, current_time)
    ELSE Outcome(TRUE, None, <<>>)

ExecuteTool(tool_name, kwargs, io) ==
    /\ call' = [op |-> "execute_tool", tool_name |-> tool_name, kwargs |-> kwargs]
    /\ LET outcome == ExecuteToolCall(tools, tool_name, kwargs, io, now)
       IN  /\ fetched' = outcome.invoked
           /\ result' = outcome.value
           /\ raised' = outcome.raised
    /\ UNCHANGED <<tools, enabled_tools>>

\* tool_call.get('name') and tool_call.get('arguments', {})
CallName(tool_call) == Argument(tool_call, "name", None)
CallArguments(tool_call) == Argument(tool_call, "arguments", <<>>)

\* the loop of process_tool_calls from call i on
RECURSIVE ToolCallsLoop(_, _, _, _, _, _)
ToolCallsLoop(registry, tool_calls, i, results, io, current_time) ==
    IF i > Len(tool_calls)
    THEN Outcome(FALSE, results, <<>>)
    ELSE LET e == ExecuteToolCall(registry, CallName(tool_calls[i]),
                                  CallArguments(tool_calls[i]), io, current_time)
         IN  IF e.raised THEN Outcome(TRUE, None, <<>>)
             ELSE ToolCallsLoop(registry, tool_calls, i + 1,
                     Append(results, [tool_name |-> CallName(tool_calls[i]), result |-> e.value]),
                     io, current_time)

ProcessToolCalls(tool_calls, io) ==
    /\ call' = [op |-> "process_tool_calls", tool_calls |-> tool_calls, io |-> io]
    /\ fetched' = <<>>
    /\ LET outcome == ToolCallsLoop(tools, tool_calls, 1, <<>>, io, now)
       IN  /\ result' = outcome.value
           /\ raised' = outcome.raised
    /\ UNCHANGED <<tools, enabled_tools>>

----------------------------------------------------------------------------
(* ChatBot.process_message, one step per statement *)

ChatMessages == {"a", "What is 15 + 27?"}

\* the defaults of retrieve_memories, the threshold in tenths
DefaultLimit == 5
DefaultThreshold == 7

\* what the provider call does: it answers, or it raises (time-out included)
LlmOutcomes == {"ok", "llm_fails"}
LlmErrors == {"Request timed out."}

\* LLMClient.generate_response: every Exception is caught and returned as text
GenerateResponse(outcome, text, error) ==
    IF outcome = "ok"
    THEN Returns(text)
    ELSE Returns("Error generating response: " \o error)

ConversationMessage(role, content) == [role |-> role, content |-> content, metadata |-> None]

\* mutant: the message is put in front
ConversationAddInFront(messages, role, content) ==
    <<ConversationMessage(role, content)>> \o messages

\* Conversation.add
ConversationAdd(messages, role, content) ==
    Append(messages, ConversationMessage(role, content))

Idle ==
    [pc |-> "idle", user_message |-> "", relevant_memories |-> <<>>,
     tools_needed |-> <<>>, response |-> "",
     entry |-> [conversation |-> <<>>, conversations |-> {}, collection |-> {}]]

Event(step, args, failed) == [step |-> step, args |-> args, failed |-> failed]

\* mutant: the exception of an awaited call is dropped
ContinueRegardless(next, call_raised) == next

\* mutant: the call gives up whatever the awaited call did
ContinueNever(next, call_raised) == "raised"

\* process_message has no try: an exception of an awaited call leaves it
Continue(next, call_raised) == IF call_raised THEN "raised" ELSE next

\* self.conversation.add('user', user_message)
ProcessMessage(user_message) ==
    /\ frame.pc = "idle"
    /\ conversation' = ConversationAdd(conversation, "user", user_message)
    /\ frame' = [Idle EXCEPT !.pc = "retrieve",
                             !.user_message = user_message,
                             !.entry = [conversation |-> conversation,
                                        conversations |-> conversations,
                                        collection |-> collection]]
    /\ trace' = <<Event("conversation.add", <<"user", user_message>>, FALSE)>>
    /\ call' = [op |-> "conversation.add"]
    /\ fetched' = <<>>
    /\ result' = <<>>
    /\ raised' = FALSE
    /\ UNCHANGED <<memoryVars, tools, enabled_tools>>

\* relevant_memories = await self.memory_manager.retrieve_memories(user_message)
AwaitRetrieveMemories(outcome) ==
    /\ frame.pc = "retrieve"
    /\ RetrieveMemories(frame.user_message, DefaultLimit, DefaultThreshold, outcome)
    /\ frame' = [frame EXCEPT !.pc = Continue("analyze", raised'),
                              !.relevant_memories = result']
    /\ trace' = Append(trace, Event("retrieve_memories", <<frame.user_message>>,
                                    outcome # "ok"))
    /\ UNCHANGED <<conversation, tools, enabled_tools>>

\* tools_needed = await self.tool_manager.analyze_tool_need(user_message)
AwaitAnalyzeToolNeed ==
    /\ frame.pc = "analyze"
    /\ AnalyzeToolNeed(frame.user_message)
    /\ frame' = [frame EXCEPT !.pc = Continue("generate", raised'),
                              !.tools_needed = result']
    /\ trace' = Append(trace, Event("analyze_tool_need", <<frame.user_message>>, FALSE))
    /\ UNCHANGED <<memoryVars, conversation>>

\* response = await self._generate_response(...)
AwaitGenerateResponse(outcome, text, error) ==
    /\ frame.pc = "generate"
    /\ call' = [op |-> "generate_response", messages |-> conversation,
                tools |-> frame.tools_needed]
    /\ fetched' = <<>>
    /\ result' = GenerateResponse(outcome, text, error).value
    /\ raised' = GenerateResponse(outcome, text, error).raises
    /\ frame' = [frame EXCEPT !.pc = Continue("respond", raised'),
                              !.response = IF raised' THEN "" ELSE result']
    /\ trace' = Append(trace, Event("generate_response", <<>>, outcome # "ok"))
    /\ UNCHANGED <<memoryVars, conversation, tools, enabled_tools>>

\* self.conversation.add('assistant', response)
AddResponse ==
    /\ frame.pc = "respond"
    /\ conversation' = ConversationAdd(conversation, "assistant", frame.response)
    /\ frame' = [frame EXCEPT !.pc = "store"]
    /\ trace' = Append(trace, Event("conversation.add", <<"assistant", frame.response>>, FALSE))
    /\ call' = [op |-> "conversation.add"]
    /\ fetched' = <<>>
    /\ result' = <<>>
    /\ raised' = FALSE
    /\ UNCHANGED <<memoryVars, tools, enabled_tools>>

\* await self.memory_manager.store_interaction(user_message, response)
AwaitStoreInteraction(outcome) ==
    /\ frame.pc = "store"
    /\ StoreInteraction(frame.user_message, frame.response, None, outcome)
    /\ frame' = [frame EXCEPT !.pc = Continue("return", raised')]
    /\ trace' = Append(trace, Event("store_interaction",
                                    <<frame.user_message, frame.response>>,
                                    outcome # "ok"))
    /\ UNCHANGED <<conversation, tools, enabled_tools>>

\* return response
Return ==
    /\ frame.pc = "return"
    /\ call' = [op |-> "process_message", user_message |-> frame.user_message]
    /\ fetched' = <<>>
    /\ result' = frame.response
    /\ raised' = FALSE
    /\ frame' = [frame EXCEPT !.pc = "idle"]
    /\ UNCHANGED <<memoryVars, conversation, trace, tools, enabled_tools>>

\* the exception of an awaited call leaves process_message
Raise ==
    /\ frame.pc = "raised"
    /\ call' = [op |-> "process_message", user_message |-> frame.user_message]
    /\ fetched' = <<>>
    /\ result' = None
    /\ raised' = TRUE
    /\ frame' = [frame EXCEPT !.pc = "idle"]
    /\ UNCHANGED <<memoryVars, conversation, trace, tools, enabled_tools>>


\* mutant: the conversation survives
SameConversation(messages) == messages

\* Conversation(): a conversation without messages takes the place of the old
NewConversation(messages) == <<>>

\* ChatBot.reset_conversation; the web layer calls it on a bot whose
\* process_message may be in progress in another thread
ResetConversation ==
    /\ conversation' = NewConversation(conversation)
    /\ call' = [op |-> "reset_conversation"]
    /\ fetched' = <<>>
    /\ result' = None
    /\ raised' = FALSE
    /\ UNCHANGED <<memoryVars, tools, enabled_tools, frame, trace>>
----------------------------------------------------------------------------
(* summarize_conversation_history *)

SummaryLimit == 20      \* LIMIT 20
SummaryTurns == 5       \* conversations[:5]
PreviewChars == 100     \* user_msg[:100]

\* a text of 101 characters
LongMessage ==
    "xxxxxxxxxxxxxxxxxxxxxxxxxxxxxxxxxxxxxxxxxxxxxxxxxxxxxxxxxxxxxxxxxxxxxxxxxxxxxxxxxxxxxxxxxxxxxxxxxxxxx"

SummaryMessages == {"a", LongMessage}

\* "".join(characters)
RECURSIVE Concat(_)
Concat(characters) ==
    IF characters = <<>>
    THEN ""
    ELSE IF Len(characters) = 1
         THEN characters[1]
         ELSE LET half == Len(characters) \div 2
              IN  Concat(SubSeq(characters, 1, half))
                      \o Concat(SubSeq(characters, half + 1, Len(characters)))

\* sequence[:n]
Slice(sequence, n) == SubSeq(sequence, 1, Min2(n, Len(sequence)))

\* text[:100]
Preview(text) ==
    IF Len(text) <= PreviewChars
    THEN text
    ELSE Concat(Slice(Characters(text), PreviewChars))

\* the excerpts of the texts a turn can hold, computed once
Previews == [text \in SummaryMessages \cup AssistantResponses |-> Preview(text)]

\* the two lines of one turn; the marker follows every excerpt
SummaryLines(row) ==
    <<"- User asked about: " \o Previews[row.user_message] \o "...",
      "  Assistant helped with: " \o Previews[row.assistant_response] \o "...">>

\* the for loop over conversations[:5], from row i on
RECURSIVE SummaryLoop(_, _, _)
SummaryLoop(rows, i, summary_parts) ==
    IF i > Len(rows)
    THEN summary_parts
    ELSE SummaryLoop(rows, i + 1, summary_parts \o SummaryLines(rows[i]))

\* "\n".join(summary_parts)
RECURSIVE JoinLines(_)
JoinLines(parts) ==
    IF Len(parts) = 1 THEN parts[1] ELSE parts[1] \o "\n" \o JoinLines(Tail(parts))

Summary(rows) ==
    IF rows = <<>>
    THEN "No conversation history available."
    ELSE JoinLines(SummaryLoop(Slice(rows, SummaryTurns), 1, <<"Recent conversation summary:">>))

\* the columns of SELECT user_message, assistant_response, timestamp
SummaryColumns(row) ==
    [user_message |-> row.user_message,
     assistant_response |-> row.assistant_response,
     timestamp |-> row.timestamp]

\* ORDER BY timestamp DESC over the selected columns: the newest rows come
\* first, rows of equal timestamp in any order
RECURSIVE SummaryRows(_)
SummaryRows(rows) ==
    IF rows = {}
    THEN {<<>>}
    ELSE LET newest == {r \in rows : \A q \in rows : q.timestamp <= r.timestamp}
             first == {CHOOSE r \in newest : SummaryColumns(r) = c :
                          c \in {SummaryColumns(r) : r \in newest}}
         IN  UNION {{<<SummaryColumns(x)>> \o s : s \in SummaryRows(rows \ {x})} : x \in first}

SummarizeConversationHistory(session_id) ==
    \E rows \in SummaryRows(RowsOfSession(conversations, session_id)) :
        /\ call' = [op |-> "summarize_conversation_history", session_id |-> session_id]
        /\ fetched' = Slice(rows, SummaryLimit)
        /\ result' = Summary(Slice(rows, SummaryLimit))
        /\ raised' = FALSE
        /\ UNCHANGED <<conversations, collection, now, lastrowids, stored>>


----------------------------------------------------------------------------
(* WarpAIIntegration.execute_with_tools, one step per statement *)

\* an Optional[list] argument: <<>> is None, <<l>> is the list l
Nothing == <<>>
Some(list) == <<list>>

AllowedToolLists ==
    {Nothing, Some(<<>>), Some(<<"calculator">>), Some(<<"web_search", "weather">>)}

\* `if allowed_tools:` is false for None and for the empty list
Truthy(allowed_tools) == allowed_tools # Nothing /\ allowed_tools[1] # <<>>

\* mutant: the allow-list is left as it is
Unrestricted(original_tools, allowed_tools) == original_tools

\* [tool for tool in original_tools if tool in allowed_tools]
Restricted(original_tools, allowed_tools) ==
    SelectSeq(original_tools, LAMBDA tool : tool \in Range(allowed_tools))

WarpIdle ==
    [pc |-> "idle", query |-> "", allowed_tools |-> Nothing, original_tools |-> <<>>]

\* original_tools = ...enabled_tools.copy(); the allow-list is narrowed
ExecuteWithTools(query, allowed_tools) ==
    /\ warp.pc = "idle"
    /\ frame.pc = "idle"
    /\ warp' = [pc |-> "call", query |-> query, allowed_tools |-> allowed_tools,
                original_tools |-> enabled_tools]
    /\ enabled_tools' = IF Truthy(allowed_tools)
                        THEN Restricted(enabled_tools, allowed_tools[1])
                        ELSE enabled_tools
    /\ call' = [op |-> "enabled_tools.copy"]
    /\ fetched' = <<>>
    /\ result' = <<>>
    /\ raised' = FALSE
    /\ UNCHANGED tools

\* response = await self.chatbot.process_message(query): the call is entered
AwaitProcessMessage ==
    /\ warp.pc = "call"
    /\ ProcessMessage(warp.query)
    /\ warp' = [warp EXCEPT !.pc = "await"]

\* process_message returned: the allow-list is restored, the answer is built
RestoreTools ==
    /\ warp.pc = "await"
    /\ frame.pc = "idle"
    /\ ~raised
    /\ enabled_tools' = warp.original_tools
    /\ warp' = [warp EXCEPT !.pc = "idle"]
    /\ call' = [op |-> "execute_with_tools", query |-> warp.query,
                allowed_tools |-> warp.allowed_tools]
    /\ fetched' = <<>>
    /\ result' = [success |-> TRUE, response |-> result,
                  tools_used |-> IF Truthy(warp.allowed_tools)
                                 THEN warp.allowed_tools[1]
                                 ELSE warp.original_tools]
    /\ raised' = FALSE
    /\ UNCHANGED tools

\* process_message raised: `except Exception` builds the failure answer
\* (its 'error' is the text of the exception, which the model does not carry)
ExceptWithTools ==
    /\ warp.pc = "await"
    /\ frame.pc = "idle"
    /\ raised
    /\ warp' = [warp EXCEPT !.pc = "idle"]
    /\ call' = [op |-> "execute_with_tools", query |-> warp.query,
                allowed_tools |-> warp.allowed_tools]
    /\ fetched' = <<>>
    /\ result' = [success |-> FALSE]
    /\ raised' = FALSE
    /\ UNCHANGED <<tools, enabled_tools>>

----------------------------------------------------------------------------
(* The web layer: api_chat and handle_message, one step per statement.     *)
(* Every request runs in a thread of its own, so the steps of different     *)
(* requests interleave freely.  Every ChatBot has a MemoryManager with its  *)
(* own SQLite connection on the one database file and the one collection.   *)

WebSessionIds == {"s1", "s2"}
WebHandlers == {"api_chat", "handle_message"}

\* no connection has a write transaction open
NoTransaction == [connection |-> 0, rows |-> {}]

NewRequest(session_id, message) ==
    [pc |-> "check", session_id |-> session_id,
     message |-> message, created |-> 0, bot |-> 0, relevant_memories |-> <<>>,
     response |-> "", timestamp |-> 0, interaction_id |-> 0]

\* ChatBot.__init__; session_id is history: the session the bot was made for
NewChatBot(session_id) == [session_id |-> session_id, conversation |-> <<>>]

At(r, pc) == r \in DOMAIN requests /\ requests[r].pc = pc

Goto(r, pc) == requests' = [requests EXCEPT ![r].pc = pc]

Registers(op, r) ==
    /\ call' = [op |-> op, request |-> r]
    /\ fetched' = <<>>
    /\ result' = <<>>
    /\ raised' = FALSE

\* message = data.get('message'); session_id = data.get('session_id', 'default')
Receive(handler, session_id, message) ==
    /\ requests' = Append(requests, NewRequest(session_id, message))
    /\ Registers(handler, Len(requests) + 1)
    /\ UNCHANGED <<memoryVars, active_bots, bots, uncommitted>>

\* if session_id not in active_bots:
CheckSession(r) ==
    /\ At(r, "check")
    /\ Goto(r, IF requests[r].session_id \notin DOMAIN active_bots THEN "create" ELSE "lookup")
    /\ Registers("session_id not in active_bots", r)
    /\ UNCHANGED <<memoryVars, active_bots, bots, uncommitted>>

\* create_chatbot()
CreateChatbot(r) ==
    /\ At(r, "create")
    /\ bots' = Append(bots, NewChatBot(requests[r].session_id))
    /\ requests' = [requests EXCEPT ![r].pc = "assign", ![r].created = Len(bots) + 1]
    /\ Registers("create_chatbot", r)
    /\ UNCHANGED <<memoryVars, active_bots, uncommitted>>

\* active_bots[session_id] = <the new bot>
AssignBot(r) ==
    /\ At(r, "assign")
    /\ active_bots' = (requests[r].session_id :> requests[r].created) @@ active_bots
    /\ Goto(r, "lookup")
    /\ Registers("active_bots[session_id] =", r)
    /\ UNCHANGED <<memoryVars, bots, uncommitted>>

\* bot = active_bots[session_id]
LookupBot(r) ==
    /\ At(r, "lookup")
    /\ requests' = [requests EXCEPT ![r].pc = "add_user",
                                    ![r].bot = active_bots[requests[r].session_id]]
    /\ Registers("active_bots[session_id]", r)
    /\ UNCHANGED <<memoryVars, active_bots, bots, uncommitted>>

\* process_message: self.conversation.add('user', user_message)
WebAddUserMessage(r) ==
    /\ At(r, "add_user")
    /\ bots' = [bots EXCEPT ![requests[r].bot].conversation =
                                ConversationAdd(@, "user", requests[r].message)]
    /\ Goto(r, "retrieve")
    /\ Registers("conversation.add", r)
    /\ UNCHANGED <<memoryVars, active_bots, uncommitted>>

\* relevant_memories = await self.memory_manager.retrieve_memories(user_message)
WebRetrieveMemories(r, outcome) ==
    /\ At(r, "retrieve")
    /\ RetrieveMemories(requests[r].message, DefaultLimit, DefaultThreshold, outcome)
    /\ requests' = [requests EXCEPT ![r].pc = "generate", ![r].relevant_memories = result']
    /\ UNCHANGED <<active_bots, bots, uncommitted>>

\* tools_needed = ...; response = await self._generate_response(...)
WebGenerateResponse(r, outcome, text, error) ==
    /\ At(r, "generate")
    /\ requests' = [requests EXCEPT ![r].pc = "add_assistant",
                                    ![r].response = GenerateResponse(outcome, text, error).value]
    /\ Registers("generate_response", r)
    /\ UNCHANGED <<memoryVars, active_bots, bots, uncommitted>>

\* self.conversation.add('assistant', response)
WebAddResponse(r) ==
    /\ At(r, "add_assistant")
    /\ bots' = [bots EXCEPT ![requests[r].bot].conversation =
                                ConversationAdd(@, "assistant", requests[r].response)]
    /\ Goto(r, "insert")
    /\ Registers("conversation.add", r)
    /\ UNCHANGED <<memoryVars, active_bots, uncommitted>>

\* mutant: a connection writes while another connection's transaction is open
NeverBusy(transaction, connection) == FALSE

\* SQLite lets one connection write at a time: the INSERT of another one
\* waits, and raises "database is locked" when the wait times out
Busy(transaction, connection) ==
    transaction.connection # 0 /\ transaction.connection # connection

\* store_interaction: timestamp = datetime.now(); cursor.execute(INSERT ...).
\* The connection sees the committed rows and the rows of its own transaction.
WebInsert(r) ==
    /\ At(r, "insert")
    /\ IF Busy(uncommitted, requests[r].bot)
       THEN /\ Goto(r, "failed")
            /\ Registers("store_interaction", r)
            /\ UNCHANGED <<memoryVars, uncommitted>>
       ELSE LET interaction_id == NextRowId(conversations \cup uncommitted.rows)
                row == NewRow(interaction_id, requests[r].message, requests[r].response,
                              now, None, None)
            IN  /\ uncommitted' = [connection |-> requests[r].bot,
                                   rows |-> uncommitted.rows \cup {row}]
                /\ requests' = [requests EXCEPT ![r].pc = "commit",
                                                ![r].timestamp = now,
                                                ![r].interaction_id = interaction_id]
                /\ lastrowids' = Append(lastrowids, interaction_id)
                /\ stored' = [interaction_id |-> interaction_id,
                              user_message |-> requests[r].message,
                              assistant_response |-> requests[r].response,
                              session_id |-> None,
                              returned |-> FALSE]
                /\ Registers("cursor.execute", r)
                /\ UNCHANGED <<conversations, collection, now>>
    /\ UNCHANGED <<active_bots, bots>>

\* self.conn.commit(): the rows of the connection's transaction are
\* written to the table
WebCommit(r) ==
    /\ At(r, "commit")
    /\ IF uncommitted.connection = requests[r].bot
       THEN /\ conversations' = conversations \cup uncommitted.rows
            /\ uncommitted' = NoTransaction
       ELSE UNCHANGED <<conversations, uncommitted>>
    /\ Goto(r, "index")
    /\ Registers("conn.commit", r)
    /\ UNCHANGED <<collection, now, lastrowids, stored, active_bots, bots>>

\* self.collection.add(...); return response
WebIndex(r, outcome) ==
    /\ At(r, "index")
    /\ IF outcome = "add_fails"
       THEN /\ Goto(r, "failed")
            /\ UNCHANGED <<collection, stored>>
       ELSE /\ Goto(r, "done")
            /\ collection' = CollectionAdd(collection,
                                 NewRecord(requests[r].interaction_id, requests[r].message,
                                           requests[r].response, requests[r].timestamp, None))
            /\ stored' = IF stored.interaction_id = requests[r].interaction_id
                         THEN [stored EXCEPT !.returned = TRUE]
                         ELSE stored
    /\ Registers("collection.add", r)
    /\ UNCHANGED <<conversations, now, lastrowids, active_bots, bots, uncommitted>>
----------------------------------------------------------------------------
(* Specifications *)

\* MemoryManager.__init__ on an empty database and an empty collection
InitMemory ==
    /\ conversations = {}
    /\ collection = {}
    /\ now = FirstDay
    /\ lastrowids = <<>>
    /\ stored = NoStore
    /\ user_preferences = {}
    /\ written = NoPreferences

\* ToolManager.__init__ with the allow-list of the configuration
InitTools(allow_list) ==
    /\ enabled_tools = allow_list
    /\ tools = RegisterBuiltinTools(allow_list)

\* ChatBot.__init__: an empty conversation, no call in progress
InitChat ==
    /\ conversation = <<>>
    /\ frame = Idle
    /\ trace = <<>>

\* WarpAIIntegration.__init__: no call in progress
InitWarp == warp = WarpIdle

\* the web layer after import: no bot, no request, no open transaction
InitWeb ==
    /\ active_bots = <<>>
    /\ bots = <<>>
    /\ requests = <<>>
    /\ uncommitted = NoTransaction

InitRegister ==
    /\ call = [op |-> "init"]
    /\ fetched = <<>>
    /\ result = <<>>
    /\ raised = FALSE

Init ==
    /\ InitMemory
    /\ InitTools(DefaultEnabledTools)
    /\ InitChat
    /\ InitWarp
    /\ InitWeb
    /\ InitRegister

\* the store's life cycle: turns are stored, read back and swept
StoreStep ==
    /\ Len(lastrowids) < MaxInserts
    /\ \E u \in UserMessages, a \in AssistantResponses, s \in StoreSessionIds,
          o \in StoreOutcomes : StoreInteraction(u, a, s, o)
    /\ UNCHANGED <<preferenceVars, toolVars, chatVars, warpVars, webVars>>

TickStep ==
    /\ Tick
    /\ UNCHANGED <<preferenceVars, toolVars, chatVars, warpVars, webVars>>

ContextStep ==
    /\ \E s \in QuerySessionIds, m \in 0..MaxTokens : GetConversationContext(s, m)
    /\ UNCHANGED <<preferenceVars, toolVars, chatVars, warpVars, webVars>>

CleanupStep ==
    /\ \E d \in DaysToKeepValues : CleanupOldMemories(d)
    /\ UNCHANGED <<preferenceVars, toolVars, chatVars, warpVars, webVars>>

Next ==
    \/ StoreStep
    \/ TickStep
    \/ ContextStep
    \/ CleanupStep

Spec == Init /\ [][Next]_vars

\* the life cycle without retention sweeps
NextNoRetention ==
    \/ StoreStep
    \/ TickStep
    \/ ContextStep

SpecNoRetention == Init /\ [][NextNoRetention]_vars

\* context assembly over the turns of any stored history
StoreTurnStep ==
    /\ Len(lastrowids) < MaxTurns
    /\ \E u \in UserMessages, a \in AssistantResponses :
          StoreInteraction(u, a, "s1", "ok")
    /\ UNCHANGED <<preferenceVars, toolVars, chatVars, warpVars, webVars>>

NextContext ==
    \/ StoreTurnStep
    \/ TickStep
    \/ ContextStep

SpecContext == Init /\ [][NextContext]_vars

\* retrieval over the records of any indexed history
IndexTurnStep ==
    /\ Len(lastrowids) < MaxRecords
    /\ \E a \in AssistantResponses : StoreInteraction("a", a, "s1", "ok")
    /\ UNCHANGED <<preferenceVars, toolVars, chatVars, warpVars, webVars>>

RetrieveStep ==
    /\ \E q \in Queries, l \in 0..MaxLimit, t \in Thresholds, o \in QueryOutcomes :
          RetrieveMemories(q, l, t, o)
    /\ UNCHANGED <<preferenceVars, toolVars, chatVars, warpVars, webVars>>

NextRetrieve ==
    \/ IndexTurnStep
    \/ RetrieveStep

SpecRetrieve == Init /\ [][NextRetrieve]_vars

\* the preference table under any writes and reads
MaxPreferenceWrites == 3

StorePreferenceStep ==
    /\ NextRowId(user_preferences) <= MaxPreferenceWrites
    /\ \E k \in PreferenceKeys, v \in PreferenceValues : StoreUserPreference(k, v)
    /\ UNCHANGED <<memoryVars, toolVars, chatVars, warpVars, webVars>>

GetPreferenceStep ==
    /\ \E k \in PreferenceKeys : GetUserPreference(k)
    /\ UNCHANGED <<memoryVars, toolVars, chatVars, warpVars, webVars>>

NextPreferences ==
    \/ StorePreferenceStep
    \/ GetPreferenceStep
    \/ TickStep

SpecPreferences == Init /\ [][NextPreferences]_vars

\* the tool registry under any configuration and any calls
ToolNames == {"calculator", "weather", "nonexistent_tool"}

ParameterMappings ==
    {<<>>,
     [expression |-> "2 + 3"],
     [expression |-> "import os"],
     [expression |-> "__import__('os').system('id')"],
     [expression |-> "1 / 0"],
     [bogus |-> "1"],
     [tool_name |-> "x"],
     [location |-> "Paris"],
     [operation |-> "write", filepath |-> "f"]}

ToolMessages ==
    {"What is 15 + 27?", "Search for latest AI news", "Hello, how are you?", "RAIN"}

MaxCalls == 2

ToolCalls ==
    {[name |-> "calculator", arguments |-> [expression |-> "2 + 3"]],
     [name |-> "calculator", arguments |-> [bogus |-> "1"]],
     [name |-> "calculator", arguments |-> [tool_name |-> "x"]],
     [name |-> "nonexistent_tool"],
     [arguments |-> <<>>]}

Batches == UNION {[1..n -> ToolCalls] : n \in 0..MaxCalls}

InitAnyTools ==
    /\ InitMemory
    /\ \E allow_list \in AllowLists : InitTools(allow_list)
    /\ InitChat
    /\ InitWarp
    /\ InitWeb
    /\ InitRegister

RegisterStep ==
    /\ RegisterTool(CustomTool.name, CustomTool.function, CustomTool.description)
    /\ UNCHANGED <<memoryVars, preferenceVars, chatVars, warpVars, webVars>>

EnableStep ==
    /\ \E n \in ToolNames : EnableTool(n)
    /\ UNCHANGED <<memoryVars, preferenceVars, chatVars, warpVars, webVars>>

DisableStep ==
    /\ \E n \in ToolNames : DisableTool(n)
    /\ UNCHANGED <<memoryVars, preferenceVars, chatVars, warpVars, webVars>>

AvailableStep ==
    /\ GetAvailableTools
    /\ UNCHANGED <<memoryVars, preferenceVars, chatVars, warpVars, webVars>>

AnalyzeStep ==
    /\ \E m \in ToolMessages : AnalyzeToolNeed(m)
    /\ UNCHANGED <<memoryVars, preferenceVars, chatVars, warpVars, webVars>>

ExecuteStep ==
    /\ \E n \in ToolNames \cup {"file_operations", CustomTool.name}, k \in ParameterMappings, io \in IoOutcomes :
          ExecuteTool(n, k, io)
    /\ UNCHANGED <<memoryVars, preferenceVars, chatVars, warpVars, webVars>>

BatchStep ==
    /\ \E b \in Batches, io \in IoOutcomes : ProcessToolCalls(b, io)
    /\ UNCHANGED <<memoryVars, preferenceVars, chatVars, warpVars, webVars>>

NextTools ==
    \/ RegisterStep
    \/ EnableStep
    \/ DisableStep
    \/ AvailableStep
    \/ AnalyzeStep
    \/ ExecuteStep

SpecTools == InitAnyTools /\ [][NextTools]_vars

\* batches of tool calls under any configuration, the calculator switched
\* off and on between them
SwitchStep ==
    /\ \E flag \in BOOLEAN :
          SetEnabled(IF flag THEN "enable_tool" ELSE "disable_tool", "calculator", flag)
    /\ UNCHANGED <<memoryVars, preferenceVars, chatVars, warpVars, webVars>>

NextBatch ==
    \/ SwitchStep
    \/ BatchStep

SpecBatch == InitAnyTools /\ [][NextBatch]_vars

\* the chatbot under any messages and any failures of what it awaits
MaxMessages == 2

ProcessMessageStep ==
    /\ Len(conversation) < 2 * MaxMessages
    /\ \E u \in ChatMessages : ProcessMessage(u)
    /\ UNCHANGED <<preferenceVars, warpVars, webVars>>

AwaitRetrieveMemoriesStep ==
    /\ \E o \in QueryOutcomes : AwaitRetrieveMemories(o)
    /\ UNCHANGED <<preferenceVars, warpVars, webVars>>

AwaitAnalyzeToolNeedStep ==
    /\ AwaitAnalyzeToolNeed
    /\ UNCHANGED <<preferenceVars, warpVars, webVars>>

AwaitGenerateResponseStep ==
    /\ \E o \in LlmOutcomes, t \in AssistantResponses, e \in LlmErrors :
          AwaitGenerateResponse(o, t, e)
    /\ UNCHANGED <<preferenceVars, warpVars, webVars>>

AddResponseStep ==
    /\ AddResponse
    /\ UNCHANGED <<preferenceVars, warpVars, webVars>>

AwaitStoreInteractionStep ==
    /\ \E o \in StoreOutcomes : AwaitStoreInteraction(o)
    /\ UNCHANGED <<preferenceVars, warpVars, webVars>>

ReturnStep ==
    /\ Return
    /\ UNCHANGED <<preferenceVars, warpVars, webVars>>

RaiseStep ==
    /\ Raise
    /\ UNCHANGED <<preferenceVars, warpVars, webVars>>

NextChat ==
    \/ ProcessMessageStep
    \/ AwaitRetrieveMemoriesStep
    \/ AwaitAnalyzeToolNeedStep
    \/ AwaitGenerateResponseStep
    \/ AddResponseStep
    \/ AwaitStoreInteractionStep
    \/ ReturnStep
    \/ RaiseStep

SpecChat == Init /\ [][NextChat]_vars

----------------------------------------------------------------------------
(* Specifications of the summary, the calculator and the frame conditions *)

\* summaries over the turns of any stored history
MaxSummaryTurns == 6

StoreSummaryStep ==
    /\ Len(lastrowids) < MaxSummaryTurns
    /\ \E u \in SummaryMessages, a \in AssistantResponses :
          StoreInteraction(u, a, "s1", "ok")
    /\ UNCHANGED <<preferenceVars, toolVars, chatVars, warpVars, webVars>>

SummarizeStep ==
    /\ \E s \in QuerySessionIds : SummarizeConversationHistory(s)
    /\ UNCHANGED <<preferenceVars, toolVars, chatVars, warpVars, webVars>>

NextSummary ==
    \/ StoreSummaryStep
    \/ TickStep
    \/ SummarizeStep

SpecSummary == Init /\ [][NextSummary]_vars

\* every operation of the memory component, on inputs small enough to run
\* them all against each other
MemoryStoreStep ==
    /\ Len(lastrowids) < MaxInserts
    /\ \E o \in StoreOutcomes : StoreInteraction("a", "c", "s1", o)
    /\ UNCHANGED <<preferenceVars, toolVars, chatVars, warpVars, webVars>>

MemoryContextStep ==
    /\ GetConversationContext("s1", MaxTokens)
    /\ UNCHANGED <<preferenceVars, toolVars, chatVars, warpVars, webVars>>

MemorySummarizeStep ==
    /\ SummarizeConversationHistory("s1")
    /\ UNCHANGED <<preferenceVars, toolVars, chatVars, warpVars, webVars>>

MemoryRetrieveStep ==
    /\ \E o \in QueryOutcomes : RetrieveMemories("q", DefaultLimit, 0, o)
    /\ UNCHANGED <<preferenceVars, toolVars, chatVars, warpVars, webVars>>

MemoryPreferenceStep ==
    /\ NextRowId(user_preferences) <= MaxPreferenceWrites
    /\ StoreUserPreference("theme", "v1")
    /\ UNCHANGED <<memoryVars, toolVars, chatVars, warpVars, webVars>>

NextMemory ==
    \/ MemoryStoreStep
    \/ TickStep
    \/ MemoryContextStep
    \/ MemorySummarizeStep
    \/ MemoryRetrieveStep
    \/ CleanupStep
    \/ MemoryPreferenceStep
    \/ GetPreferenceStep

SpecMemory == Init /\ [][NextMemory]_vars

\* the chatbot with resets of its conversation between and during calls
BoundedProcessMessageStep ==
    /\ Len(conversation) < 2 * MaxMessages
    /\ Len(lastrowids) < MaxMessages
    /\ ProcessMessage("a")
    /\ UNCHANGED <<preferenceVars, warpVars, webVars>>

ResetConversationStep ==
    /\ ResetConversation
    /\ UNCHANGED <<preferenceVars, warpVars, webVars>>

NextReset ==
    \/ BoundedProcessMessageStep
    \/ AwaitRetrieveMemoriesStep
    \/ AwaitAnalyzeToolNeedStep
    \/ AwaitGenerateResponseStep
    \/ AddResponseStep
    \/ AwaitStoreInteractionStep
    \/ ReturnStep
    \/ RaiseStep
    \/ ResetConversationStep

SpecReset == Init /\ [][NextReset]_vars

\* execute_with_tools under any allow-list and any failure of process_message
ExecuteWithToolsStep ==
    /\ Len(conversation) < 2 * MaxMessages
    /\ \E q \in ChatMessages, a \in AllowedToolLists : ExecuteWithTools(q, a)
    /\ UNCHANGED <<memoryVars, preferenceVars, chatVars, webVars>>

AwaitProcessMessageStep ==
    /\ AwaitProcessMessage
    /\ UNCHANGED <<preferenceVars, webVars>>

RestoreToolsStep ==
    /\ RestoreTools
    /\ UNCHANGED <<memoryVars, preferenceVars, chatVars, webVars>>

ExceptWithToolsStep ==
    /\ ExceptWithTools
    /\ UNCHANGED <<memoryVars, preferenceVars, chatVars, webVars>>

NextWarp ==
    \/ ExecuteWithToolsStep
    \/ AwaitProcessMessageStep
    \/ AwaitRetrieveMemoriesStep
    \/ AwaitAnalyzeToolNeedStep
    \/ AwaitGenerateResponseStep
    \/ AddResponseStep
    \/ AwaitStoreInteractionStep
    \/ ReturnStep
    \/ RaiseStep
    \/ RestoreToolsStep
    \/ ExceptWithToolsStep

SpecWarp == Init /\ [][NextWarp]_vars

\* the web layer under any interleaving of its requests
MaxRequests == 2

ReceiveStep ==
    /\ Len(requests) < MaxRequests
    /\ \E h \in WebHandlers, s \in WebSessionIds, m \in ChatMessages : Receive(h, s, m)
    /\ UNCHANGED <<preferenceVars, toolVars, chatVars, warpVars>>

CheckSessionStep ==
    /\ \E r \in DOMAIN requests : CheckSession(r)
    /\ UNCHANGED <<preferenceVars, toolVars, chatVars, warpVars>>

CreateChatbotStep ==
    /\ \E r \in DOMAIN requests : CreateChatbot(r)
    /\ UNCHANGED <<preferenceVars, toolVars, chatVars, warpVars>>

AssignBotStep ==
    /\ \E r \in DOMAIN requests : AssignBot(r)
    /\ UNCHANGED <<preferenceVars, toolVars, chatVars, warpVars>>

LookupBotStep ==
    /\ \E r \in DOMAIN requests : LookupBot(r)
    /\ UNCHANGED <<preferenceVars, toolVars, chatVars, warpVars>>

WebAddUserMessageStep ==
    /\ \E r \in DOMAIN requests : WebAddUserMessage(r)
    /\ UNCHANGED <<preferenceVars, toolVars, chatVars, warpVars>>

WebRetrieveMemoriesStep ==
    /\ \E r \in DOMAIN requests, o \in QueryOutcomes : WebRetrieveMemories(r, o)
    /\ UNCHANGED <<preferenceVars, toolVars, chatVars, warpVars>>

WebGenerateResponseStep ==
    /\ \E r \in DOMAIN requests, o \in LlmOutcomes, t \in AssistantResponses, e \in LlmErrors :
          WebGenerateResponse(r, o, t, e)
    /\ UNCHANGED <<preferenceVars, toolVars, chatVars, warpVars>>

WebAddResponseStep ==
    /\ \E r \in DOMAIN requests : WebAddResponse(r)
    /\ UNCHANGED <<preferenceVars, toolVars, chatVars, warpVars>>

WebInsertStep ==
    /\ \E r \in DOMAIN requests : WebInsert(r)
    /\ UNCHANGED <<preferenceVars, toolVars, chatVars, warpVars>>

WebCommitStep ==
    /\ \E r \in DOMAIN requests : WebCommit(r)
    /\ UNCHANGED <<preferenceVars, toolVars, chatVars, warpVars>>

WebIndexStep ==
    /\ \E r \in DOMAIN requests, o \in {"ok", "add_fails"} : WebIndex(r, o)
    /\ UNCHANGED <<preferenceVars, toolVars, chatVars, warpVars>>

\* the session readers of the memory component, called with a web session
SessionContextStep ==
    /\ \E s \in WebSessionIds : GetConversationContext(s, MaxTokens)
    /\ UNCHANGED <<preferenceVars, toolVars, chatVars, warpVars, webVars>>

SessionSummaryStep ==
    /\ \E s \in WebSessionIds : SummarizeConversationHistory(s)
    /\ UNCHANGED <<preferenceVars, toolVars, chatVars, warpVars, webVars>>

NextWeb ==
    \/ ReceiveStep
    \/ CheckSessionStep
    \/ CreateChatbotStep
    \/ AssignBotStep
    \/ LookupBotStep
    \/ WebAddUserMessageStep
    \/ WebRetrieveMemoriesStep
    \/ WebGenerateResponseStep
    \/ WebAddResponseStep
    \/ WebInsertStep
    \/ WebCommitStep
    \/ WebIndexStep
    \/ SessionContextStep
    \/ SessionSummaryStep

SpecWeb == Init /\ [][NextWeb]_vars

\* independent sessions on the shared stores: every session sends a message
\* of its own
MessageOf(session_id) == IF session_id = "s1" THEN "a" ELSE "What is 15 + 27?"

ArriveStep ==
    /\ Len(requests) < MaxRequests
    /\ \E h \in WebHandlers, s \in WebSessionIds : Receive(h, s, MessageOf(s))
    /\ UNCHANGED <<preferenceVars, toolVars, chatVars, warpVars>>

AnswerStep ==
    /\ \E r \in DOMAIN requests, t \in AssistantResponses, e \in LlmErrors :
          WebGenerateResponse(r, "ok", t, e)
    /\ UNCHANGED <<preferenceVars, toolVars, chatVars, warpVars>>

NextSessions ==
    \/ ArriveStep
    \/ CheckSessionStep
    \/ CreateChatbotStep
    \/ AssignBotStep
    \/ LookupBotStep
    \/ WebAddUserMessageStep
    \/ WebRetrieveMemoriesStep
    \/ AnswerStep
    \/ WebAddResponseStep
    \/ WebInsertStep
    \/ WebCommitStep
    \/ WebIndexStep

SpecSessions == Init /\ [][NextSessions]_vars

----------------------------------------------------------------------------
(* Properties of get_conversation_context *)

IsContextCall == call.op = "get_conversation_context"

TurnLength(row) == Len(row.user_message) + Len(row.assistant_response)

RECURSIVE ContentLength(_)
ContentLength(messages) ==
    IF messages = <<>> THEN 0 ELSE Len(Head(messages).content) + ContentLength(Tail(messages))

RECURSIVE PrefixLength(_, _)
PrefixLength(rows, j) == IF j = 0 THEN 0 ELSE PrefixLength(rows, j - 1) + TurnLength(rows[j])

\* the number of newest turns whose running total stays within the budget
LongestRun(rows, max_tokens) ==
    Max({j \in 0..Len(rows) : \A i \in 0..j : PrefixLength(rows, i) <= max_tokens})

\* C1: the content lengths of the messages get_conversation_context returns
\* sum to at most max_tokens, for every session and every max_tokens >= 0.
C1_ContextWithinBudget ==
    IsContextCall => ContentLength(result) <= call.max_tokens

\* a window that holds some turns of the session and leaves others out
C1_Witness ==
    /\ IsContextCall
    /\ result # <<>>
    /\ 2 * Len(fetched) > Len(result)
    /\ ContentLength(result) = call.max_tokens

\* C2: get_conversation_context returns the included turns oldest first, and
\* within each turn the user message immediately before its assistant response.
C2_ContextChronological ==
    IsContextCall =>
        LET k == Len(result) \div 2
        IN  /\ Len(result) = 2 * k
            /\ \A j \in 1..k :
                  /\ result[2 * j - 1] = Message("user", fetched[k - j + 1].user_message)
                  /\ result[2 * j] = Message("assistant", fetched[k - j + 1].assistant_response)

\* C3: get_conversation_context includes exactly the longest newest-first run
\* of turns whose running total stays at or under max_tokens, every included
\* turn whole: the first turn over the budget and all older ones are left out.
C3_ContextIsLongestRun ==
    IsContextCall =>
        LET k == LongestRun(fetched, call.max_tokens)
        IN  /\ Len(result) = 2 * k
            /\ \A i \in 1..k :
                  {result[2 * (k - i) + 1], result[2 * (k - i) + 2]} =
                      {Message("user", fetched[i].user_message),
                       Message("assistant", fetched[i].assistant_response)}

\* the newest turn fits, the next one does not, and the oldest would still fit
C3_Witness ==
    /\ IsContextCall
    /\ Len(fetched) = 3
    /\ Len(result) = 2
    /\ TurnLength(fetched[1]) + TurnLength(fetched[2]) > call.max_tokens
    /\ TurnLength(fetched[1]) + TurnLength(fetched[3]) <= call.max_tokens

----------------------------------------------------------------------------
(* Properties of the stores *)

IsStoreCall == call.op = "store_interaction"

\* the latest stored turn is the newest turn of the session that is read,
\* store_interaction returned, and the budget has room for the turn
ReadsBackStored ==
    /\ IsContextCall
    /\ stored.returned
    /\ stored.session_id = call.session_id
    /\ fetched # <<>>
    /\ fetched[1].id = stored.interaction_id
    /\ call.max_tokens >= Len(stored.user_message) + Len(stored.assistant_response)

\* C4: round trip.  After store_interaction(u, a, session_id=s) returned,
\* get_conversation_context(s) with a budget of at least len(u)+len(a), the
\* turn being the newest of s, includes a turn whose texts are exactly u and a.
C4_RoundTrip ==
    ReadsBackStored =>
        \E i \in 1..(Len(result) - 1) :
            {result[i], result[i + 1]} =
                {Message("user", stored.user_message),
                 Message("assistant", stored.assistant_response)}

\* the stored turn is read back on top of an older turn of its session
C4_Witness ==
    /\ ReadsBackStored
    /\ Len(fetched) = 2
    /\ fetched[2].user_message # stored.user_message

\* C5: a turn stored without a session id is recorded under the default
\* session id in the structured store and in the semantic index alike, and is
\* among the turns of the default session.
C5_DefaultSession ==
    (IsStoreCall /\ ~raised /\ call.session_id = None) =>
        /\ \E r \in RowsOfSession(conversations, "default") : r.id = call.interaction_id
        /\ \A r \in conversations :
              r.id = call.interaction_id => r.session_id = "default"
        /\ \A rec \in collection :
              rec.id = RecordId(call.interaction_id) => rec.metadata.session_id = "default"

\* C6: cleanup_old_memories(days_to_keep) completes on every calendar date,
\* and afterwards no turn older than now - days_to_keep days is in the store.
C6_Retention ==
    call.op = "cleanup_old_memories" =>
        /\ ~raised
        /\ \A r \in conversations : ~(r.timestamp < now - call.days_to_keep)

\* C7: every newly stored turn gets an id strictly greater than every id
\* assigned before it, also after turns were deleted.
C7_IdsIncrease ==
    \A i, j \in DOMAIN lastrowids : i < j => lastrowids[i] < lastrowids[j]

\* C8: without retention the semantic index holds exactly one record
\* 'interaction_<id>' for each turn of the structured store and no other, its
\* text made of that turn's two messages, also when the index write failed.
C8_IndexMirrorsStore ==
    /\ \A r \in conversations :
          /\ Cardinality({rec \in collection : rec.id = RecordId(r.id)}) = 1
          /\ \A rec \in collection :
                rec.id = RecordId(r.id) =>
                    rec.document = CombinedText(r.user_message, r.assistant_response)
    /\ \A rec \in collection : \E r \in conversations : rec.id = RecordId(r.id)

----------------------------------------------------------------------------
(* Properties of retrieve_memories *)

IsRetrieveCall == call.op = "retrieve_memories"

\* C9: no record whose similarity, 1 minus the distance the index reported,
\* is strictly below similarity_threshold is in the output of retrieve_memories.
C9_ThresholdExclusion ==
    IsRetrieveCall =>
        /\ \A i \in DOMAIN fetched :
              One - fetched[i].distance < call.similarity_threshold =>
                  \A j \in DOMAIN result : result[j].id # fetched[i].metadata.id
        /\ \A j \in DOMAIN result : result[j].similarity >= call.similarity_threshold

\* the threshold keeps one hit and drops another
C9_Witness ==
    /\ IsRetrieveCall
    /\ result # <<>>
    /\ Len(fetched) > Len(result)
    /\ \E i \in DOMAIN fetched : One - fetched[i].distance = call.similarity_threshold

\* C10: retrieve_memories returns at most `limit` records, their similarity
\* scores non-increasing from first to last.
C10_OrderedAndCapped ==
    IsRetrieveCall =>
        /\ Len(result) <= call.limit
        /\ \A i, j \in DOMAIN result : i < j => result[i].similarity >= result[j].similarity
        /\ \A j \in DOMAIN result :
              \E i \in DOMAIN fetched :
                  /\ result[j].id = fetched[i].metadata.id
                  /\ result[j].similarity = One - fetched[i].distance

\* the index holds more records than the limit, and the limit is used up by
\* memories of different similarity
C10_Witness ==
    /\ IsRetrieveCall
    /\ Cardinality(collection) > call.limit
    /\ Len(result) = call.limit
    /\ Len(result) >= 2
    /\ result[1].similarity > result[2].similarity

----------------------------------------------------------------------------
(* Properties of the preference store *)

IsGetPreferenceCall == call.op = "get_user_preference"

RowsOfKey(k) == {r \in user_preferences : r.key = k}

LastWritten(k) == IF written[k] = <<>> THEN None ELSE written[k][Len(written[k])]

\* C14: the preference table holds one record for a key that was written,
\* whatever the number of writes, and none for a key never written; the
\* record carries the value written last, and get_user_preference returns
\* that value, or None for a key never written.
C14_Upsert ==
    /\ \A k \in PreferenceKeys :
          /\ Cardinality(RowsOfKey(k)) = IF written[k] = <<>> THEN 0 ELSE 1
          /\ \A r \in RowsOfKey(k) : r.value = LastWritten(k)
    /\ IsGetPreferenceCall => result = LastWritten(call.key)

\* v1 then v2 were written for a key, and the key is read
C14_Witness ==
    /\ IsGetPreferenceCall
    /\ written[call.key] = <<"v1", "v2">>
    /\ result = "v2"
    /\ \E k \in PreferenceKeys : written[k] = <<>>

----------------------------------------------------------------------------
(* Properties of the tool registry *)

IsExecuteCall == call.op = "execute_tool"

NotFound(tool_name) == [error |-> "Tool '" \o Str(tool_name) \o "' not found"]

Disabled(tool_name) == [error |-> "Tool '" \o Str(tool_name) \o "' is disabled"]

IsResult(r) ==
    \/ DOMAIN r = {"success", "result"} /\ r.success = TRUE
    \/ DOMAIN r = {"error"}

\* C16: execute_tool raises nothing to its caller, whatever the tool name
\* and the parameter mapping: it returns {success: True, result} or {error}.
C16_NeverPropagates ==
    IsExecuteCall => ~raised /\ IsResult(result)

IsBatchCall == call.op = "process_tool_calls"

\* C17: process_tool_calls returns one entry per call, in the order of the
\* calls; entry i carries the name of call i and the result of executing it,
\* and no call ends the batch.
C17_BatchPairing ==
    IsBatchCall =>
        /\ ~raised
        /\ Len(result) = Len(call.tool_calls)
        /\ \A i \in DOMAIN result :
              /\ result[i].tool_name = CallName(call.tool_calls[i])
              /\ result[i].result =
                    ExecuteToolCall(tools, CallName(call.tool_calls[i]),
                                    CallArguments(call.tool_calls[i]), call.io, now).value

IsAnalyzeCall == call.op = "analyze_tool_need"

\* C18: every tool analyze_tool_need returns is registered and has its
\* enabled flag set, and is listed once.
C18_OnlyEnabledTools ==
    IsAnalyzeCall =>
        /\ \A i \in DOMAIN result :
              result[i] \in DOMAIN tools /\ tools[result[i]].enabled
        /\ \A i, j \in DOMAIN result : result[i] = result[j] => i = j

AvailableNames(registry) ==
    {AvailableTools(registry)[i].name : i \in DOMAIN AvailableTools(registry)}

\* C19: every built-in tool is registered; after construction its flag says
\* whether the allow-list names it; get_available_tools lists the registered
\* tools whose flag is set, each once; a registered tool is off that list
\* after disable_tool and on it after enable_tool.
C19_RegistryAndFlags ==
    /\ \A i \in DOMAIN BuiltinTools : BuiltinTools[i].name \in DOMAIN tools
    /\ call.op = "init" =>
          \A n \in DOMAIN tools : tools[n].enabled = (n \in Range(enabled_tools))
    /\ call.op = "get_available_tools" =>
          /\ {result[i].name : i \in DOMAIN result} = {n \in DOMAIN tools : tools[n].enabled}
          /\ \A i, j \in DOMAIN result : result[i].name = result[j].name => i = j
          /\ \A i \in DOMAIN result : result[i].description = tools[result[i].name].description
    /\ (call.op = "disable_tool" /\ call.tool_name \in DOMAIN tools) =>
          call.tool_name \notin AvailableNames(tools)
    /\ (call.op = "enable_tool" /\ call.tool_name \in DOMAIN tools) =>
          call.tool_name \in AvailableNames(tools)

\* a tool the allow-list does not name has been enabled and is listed
C19_Witness ==
    /\ call.op = "get_available_tools"
    /\ "calculator" \notin Range(enabled_tools)
    /\ "weather" \in Range(enabled_tools)
    /\ {result[i].name : i \in DOMAIN result} = {"weather"}

----------------------------------------------------------------------------
(* Properties of process_message *)

Steps(events) == [i \in DOMAIN events |-> events[i].step]

Failed(step) == \E i \in DOMAIN trace : trace[i].step = step /\ trace[i].failed

IsProcessMessageReturn == call.op = "process_message" /\ ~raised

\* C11: when the query of the semantic index fails, retrieve_memories
\* returns the empty list and does not raise, and process_message goes on
\* to its next statement; it returns its response unless a later call raises.
C11_RetrievalDegrades ==
    /\ (call.op = "retrieve_memories" /\ Failed("retrieve_memories")) =>
          /\ result = <<>>
          /\ ~raised
          /\ frame.pc = "analyze"
          /\ frame.relevant_memories = <<>>
    /\ (Failed("retrieve_memories") /\ frame.pc = "raised") => Failed("store_interaction")

\* the query failed and process_message returned a response
C11_Witness ==
    /\ IsProcessMessageReturn
    /\ Failed("retrieve_memories")
    /\ result = "c"

InsertFailed == call.op = "store_interaction" /\ call.interaction_id = 0

\* C12: a store_interaction whose insert fails raises, leaves the semantic
\* index and the table as they were, and process_message raises in its turn
\* instead of returning.
C12_StoreFailurePropagates ==
    [][/\ InsertFailed' =>
              /\ raised'
              /\ collection' = collection
              /\ conversations' = conversations
              /\ frame'.pc = "raised"
       /\ InsertFailed =>
              /\ call'.op = "process_message"
              /\ raised'
              /\ result' = None]_vars

\* the insert failed and process_message raised
C12_Witness ==
    /\ call.op = "process_message"
    /\ raised
    /\ trace[Len(trace)] = Event("store_interaction", <<"a", "c">>, TRUE)
    /\ conversations = frame.entry.conversations
    /\ collection = frame.entry.collection

\* C13: when the LLM call of a process_message fails, that call stores no
\* turn: the table and the semantic index stay as they were when it began.
C13_NoStoreAfterLlmFailure ==
    Failed("generate_response") =>
        /\ conversations = frame.entry.conversations
        /\ collection = frame.entry.collection

\* C20: a process_message that returns has added the user message,
\* awaited retrieve_memories and analyze_tool_need with the user message,
\* awaited the LLM, added the response and awaited store_interaction once
\* with the user message and the response it returns, in this order; the
\* conversation is the one at entry plus the user and the assistant message.
C20_StepOrder ==
    IsProcessMessageReturn =>
        /\ Steps(trace) = <<"conversation.add", "retrieve_memories", "analyze_tool_need",
                            "generate_response", "conversation.add", "store_interaction">>
        /\ trace[1].args = <<"user", call.user_message>>
        /\ trace[2].args = <<call.user_message>>
        /\ trace[3].args = <<call.user_message>>
        /\ trace[5].args = <<"assistant", result>>
        /\ trace[6].args = <<call.user_message, result>>
        /\ conversation = frame.entry.conversation \o
                            <<ConversationMessage("user", call.user_message),
                              ConversationMessage("assistant", result)>>

\* the second process_message of a conversation has returned
C20_Witness ==
    /\ IsProcessMessageReturn
    /\ Len(frame.entry.conversation) = 2
    /\ Len(conversation) = 4
    /\ frame.tools_needed = <<"web_search", "calculator">>

----------------------------------------------------------------------------
(* Properties of summarize_conversation_history *)

IsSummaryCall == call.op = "summarize_conversation_history"

\* the excerpt of the claim: the marker only after a text that was cut
Excerpt(text) ==
    IF Len(text) > PreviewChars THEN Preview(text) \o "..." ELSE text

RECURSIVE ExcerptLines(_, _)
ExcerptLines(rows, i) ==
    IF i > Len(rows)
    THEN <<>>
    ELSE <<"- User asked about: " \o Excerpt(rows[i].user_message),
           "  Assistant helped with: " \o Excerpt(rows[i].assistant_response)>>
            \o ExcerptLines(rows, i + 1)

\* C22: the summary of a session without turns is the sentinel; otherwise it
\* is the header and, for the min(5, n) most recent turns, newest first, a
\* user excerpt and an assistant excerpt of at most 100 characters, followed
\* by the marker when the text is longer than that and not otherwise.
C22_SummaryRendering ==
    IsSummaryCall =>
        IF RowsOfSession(conversations, call.session_id) = {}
        THEN result = "No conversation history available."
        ELSE \E rows \in SummaryRows(RowsOfSession(conversations, call.session_id)) :
                result = JoinLines(<<"Recent conversation summary:">>
                                     \o ExcerptLines(Slice(rows, SummaryTurns), 1))

----------------------------------------------------------------------------
(* Properties of the calculator *)

Digits == {"0", "1", "2", "3", "4", "5", "6", "7", "8", "9"}

ArithmeticCharacters == Digits \cup {"+", "-", "*", "/", ".", "(", ")", " "}

IsCalculatorRun ==
    /\ IsExecuteCall
    /\ fetched # <<>>
    /\ fetched[1].function = "_calculator"
    /\ DOMAIN call.kwargs = {"expression"}

\* C23: what the calculator hands to the evaluator is the expression without
\* its characters outside digits, + - * / . ( ) and space, in their order;
\* the call returns a result string, the evaluator's error message included
\* when the evaluation fails, and raises nothing.
C23_CalculatorSanitises ==
    IsCalculatorRun =>
        LET expression == call.kwargs.expression
            safe_expr == SafeExpr(expression)
        IN  /\ safe_expr = SelectSeq(Characters(expression),
                                     LAMBDA c : c \in ArithmeticCharacters)
            /\ \A i \in DOMAIN safe_expr : safe_expr[i] \in ArithmeticCharacters
            /\ ~raised
            /\ result = [success |-> TRUE,
                         result |-> IF Eval(safe_expr).raises
                                    THEN "Calculation error: " \o Eval(safe_expr).value
                                    ELSE "Calculation: " \o expression \o " = "
                                            \o Eval(safe_expr).value]

\* an expression that imports a module is evaluated as `().()`, which fails
C23_Witness ==
    /\ IsCalculatorRun
    /\ call.kwargs.expression = "__import__('os').system('id')"
    /\ SafeExpr(call.kwargs.expression) = <<"(", ")", ".", "(", ")">>
    /\ result = [success |-> TRUE,
                 result |-> "Calculation error: invalid syntax (<string>, line 1)"]

----------------------------------------------------------------------------
(* Frame conditions of the memory component *)

IsCleanupCall == call.op = "cleanup_old_memories"

\* C24: no step changes a column of a turn that stays in the table, and a
\* turn leaves the table only in a step of cleanup_old_memories.
C24_TurnsNeverUpdated ==
    [][/\ \A r \in conversations :
              (\E q \in conversations' : q.id = r.id) => r \in conversations'
       /\ (\E r \in conversations : r \notin conversations') => IsCleanupCall']_vars

\* a sweep removed one turn and kept another, and the table was read since
C24_Witness ==
    /\ call.op = "get_conversation_context"
    /\ Cardinality(conversations) = 1
    /\ Len(lastrowids) = 2
    /\ result # <<>>

\* C25: a call of cleanup_old_memories raises nothing, removes no turn whose
\* timestamp is at or after the cutoff (days_to_keep days before now), adds
\* none, and leaves the preferences and the semantic index as they were.
C25_CleanupFrame ==
    [][IsCleanupCall' =>
          /\ ~raised'
          /\ conversations' \subseteq conversations
          /\ \A r \in conversations :
                r.timestamp >= now - call'.days_to_keep => r \in conversations'
          /\ user_preferences' = user_preferences
          /\ collection' = collection]_vars

----------------------------------------------------------------------------
(* The allow-list and the enabled flags *)

\* C28: whatever the allow-list at construction and whatever register_tool,
\* enable_tool and disable_tool calls followed, a registered tool's enabled
\* flag is true exactly when enabled_tools names the tool.
C28_FlagsMatchList ==
    \A n \in DOMAIN tools : tools[n].enabled <=> n \in Range(enabled_tools)

----------------------------------------------------------------------------
(* The in-memory conversation *)

IsPrefix(s, t) == Len(s) <= Len(t) /\ SubSeq(t, 1, Len(s)) = s

\* C26: a step other than reset_conversation only appends to the in-memory
\* conversation; reset_conversation leaves it empty and changes neither the
\* structured store, the semantic index nor the tool registry.
C26_AppendOnlyBetweenResets ==
    [][IF call'.op = "reset_conversation"
       THEN /\ conversation' = <<>>
            /\ UNCHANGED <<conversations, user_preferences, collection, tools, enabled_tools>>
       ELSE IsPrefix(conversation, conversation')]_vars

\* a conversation that held a stored turn was reset, and a message was added
\* to the new one
C26_Witness ==
    /\ conversations # {}
    /\ Len(conversation) = 1
    /\ frame.entry.conversation = <<>>
    /\ frame.pc = "retrieve"
    /\ Len(lastrowids) = 1

----------------------------------------------------------------------------
(* execute_with_tools *)

\* C29: when execute_with_tools has answered, enabled_tools is the list it
\* was when the call began, whether process_message returned or raised; and
\* while the call runs with an allow-list, analyze_tool_need reports no tool
\* outside it.
C29_RestoresEnabledTools ==
    /\ call.op = "execute_with_tools" => enabled_tools = warp.original_tools
    /\ (call.op = "analyze_tool_need" /\ warp.pc = "await" /\ Truthy(warp.allowed_tools)) =>
          Range(result) \subseteq Range(warp.allowed_tools[1])

----------------------------------------------------------------------------
(* The web layer *)

Completed(r) == requests[r].pc = "done"

Inserted(r) == requests[r].interaction_id # 0

\* C27: every completed call has left exactly one turn, holding its own
\* message and response, under an id no other call was given, and a semantic
\* record keyed by that id with its own text; every turn and every record in
\* the stores is the turn of exactly one call.
C27_OneTurnPerCall ==
    /\ \A r \in DOMAIN requests :
          Completed(r) =>
             /\ Cardinality({row \in conversations : row.id = requests[r].interaction_id}) = 1
             /\ \A row \in conversations :
                   row.id = requests[r].interaction_id =>
                      /\ row.user_message = requests[r].message
                      /\ row.assistant_response = requests[r].response
             /\ Cardinality({rec \in collection :
                                rec.id = RecordId(requests[r].interaction_id)}) = 1
             /\ \A rec \in collection :
                   rec.id = RecordId(requests[r].interaction_id) =>
                      /\ rec.document = CombinedText(requests[r].message, requests[r].response)
                      /\ rec.metadata.id = requests[r].interaction_id
    /\ \A r, q \in DOMAIN requests :
          (Inserted(r) /\ Inserted(q) /\ r # q) =>
             requests[r].interaction_id # requests[q].interaction_id
    /\ \A row \in conversations :
          \E r \in DOMAIN requests : requests[r].interaction_id = row.id
    /\ \A rec \in collection :
          \E r \in DOMAIN requests : RecordId(requests[r].interaction_id) = rec.id

\* two calls of different sessions ran side by side, the later request
\* storing its turn first, and both completed
C27_Witness ==
    /\ Len(requests) = 2
    /\ Completed(1)
    /\ Completed(2)
    /\ requests[1].session_id # requests[2].session_id
    /\ requests[1].interaction_id = 2
    /\ requests[2].interaction_id = 1

\* C30: the web layer has constructed at most one ChatBot for a session id.
C30_OneBotPerSession ==
    \A s \in WebSessionIds :
        Cardinality({b \in DOMAIN bots : bots[b].session_id = s}) <= 1

\* the turn was stored under the session, or left by a call of the session
TurnOfSession(id, session_id) ==
    \/ \E row \in conversations : row.id = id /\ row.session_id = session_id
    \/ \E q \in DOMAIN requests :
          requests[q].interaction_id = id /\ requests[q].session_id = session_id

\* C21: the rows get_conversation_context and summarize_conversation_history
\* read for a session are rows of that session, and every memory retrieved
\* for a message of a session is a turn of that session.
C21_SessionsIsolated ==
    /\ call.op = "get_conversation_context" =>
          \A i \in DOMAIN fetched : fetched[i].session_id = call.session_id
    /\ call.op = "summarize_conversation_history" =>
          \A i \in DOMAIN fetched :
              \E row \in RowsOfSession(conversations, call.session_id) :
                  fetched[i] = SummaryColumns(row)
    /\ \A r \in DOMAIN requests :
          \A i \in DOMAIN requests[r].relevant_memories :
              TurnOfSession(requests[r].relevant_memories[i].id, requests[r].session_id)

=============================================================================
